---------------------------- MODULE Spec2Model ----------------------------
(***************************************************************************)
(* Model of the DXE paging audit test application                          *)
(* (UefiTestingPkg/AuditTests/PagingAudit/UEFI/Dxe/App/                    *)
(* DxePagingAuditTestApp.c): the cached global snapshots (flat page table  *)
(* map, special regions, non-protected image list, memory space map), the  *)
(* functions that size, populate and release them, the region attribute    *)
(* validator and the RWX exemption predicate.                              *)
(*                                                                         *)
(* FlatPageTableLib (CreateFlatPageTable, GetRegionAccessAttributes,       *)
(* IsPageReadable/Writable/Executable) is not part of the source file; it  *)
(* is modelled from the written specification of its interface.            *)
(***************************************************************************)
EXTENDS Integers, Sequences, FiniteSets, TLC

VARIABLES
  mMap,                   \* PAGE_MAP global: Entries, EntryCount, EntryPagesAllocated, ArchSignature
  mSpecialRegions,        \* MEMORY_PROTECTION_SPECIAL_REGION array (or NULL)
  mSpecialRegionCount,
  mNonProtectedImageList, \* IMAGE_RANGE_DESCRIPTOR list (or NULL)
  mMemorySpaceMap,        \* EFI_GCD_MEMORY_SPACE_DESCRIPTOR array (or NULL)
  mMemorySpaceMapCount,
  mEfiMemoryMap,          \* EFI_MEMORY_DESCRIPTOR buffer (or NULL)
  mEfiMemoryMapSize,      \* bytes
  mEfiMemoryMapDescriptorSize,
  platform,               \* what the external producers currently report
  args,                   \* the arguments of the call under study
  calls,                  \* how often each external producer was invoked in the run
  pc,                     \* where the run of the test suite stands
  last                    \* the most recent call: its name, inputs and results

vars == <<mMap, mSpecialRegions, mSpecialRegionCount, mNonProtectedImageList,
          mMemorySpaceMap, mMemorySpaceMapCount, mEfiMemoryMap, mEfiMemoryMapSize,
          mEfiMemoryMapDescriptorSize, platform, args, calls, pc, last>>

-----------------------------------------------------------------------------
(* Machine parameters *)

\* Width of UINT64 in the model; addresses and lengths are taken modulo 2^WordBits.
WordBits == 16
Modulus == 2 ^ WordBits
MaxUint == Modulus - 1

EFI_PAGE_SIZE == 4096
\* sizeof (PAGE_MAP_ENTRY): LinearAddress, Length, PageEntry, three UINT64
SizeofPageMapEntry == 3 * 8

\* UINT64 addition as the C expression A + B evaluates it
Add64(a, b) == (a + b) % Modulus

\* EFI_SIZE_TO_PAGES (Size)
EFI_SIZE_TO_PAGES(Size) ==
  (Size \div EFI_PAGE_SIZE) + (IF Size % EFI_PAGE_SIZE /= 0 THEN 1 ELSE 0)

\* Attribute bits
EFI_MEMORY_RP == "RP"
EFI_MEMORY_RO == "RO"
EFI_MEMORY_XP == "XP"
AttrBits == {EFI_MEMORY_RP, EFI_MEMORY_RO, EFI_MEMORY_XP}

\* A pointer that is NULL, and a buffer holding data
NULL == [alloc |-> FALSE, data |-> <<>>]
Buffer(d) == [alloc |-> TRUE, data |-> d]

NoCall == [op |-> "none"]

-----------------------------------------------------------------------------
(* The flat page table the platform reports *)

\* One PAGE_MAP_ENTRY
MapEntry(base, len, attrs) == [LinearAddress |-> base, Length |-> len, Attr |-> attrs]

\* A table of n one-page entries with alternating attributes
MakeTable(n) ==
  [i \in 1..n |-> MapEntry(((i - 1) * EFI_PAGE_SIZE) % Modulus, EFI_PAGE_SIZE,
                           IF i % 2 = 0 THEN {EFI_MEMORY_XP} ELSE {EFI_MEMORY_RP})]

\* Entry counts the platform may require
RequiredCounts == {1, 170, 500, 1000}

\* CreateFlatPageTable (&Map): size-then-fill producer.
\* With no buffer, or one that holds fewer entries than needed, it stores the
\* required entry count and reports EFI_BUFFER_TOO_SMALL; otherwise it fills
\* the buffer and stores the number of entries written.
CreateFlatPageTable(Map, Table, ok) ==
  IF ~ok THEN [Map |-> Map, Status |-> "EFI_ABORTED"]
  ELSE IF ~Map.Entries.alloc \/ Map.EntryCount < Len(Table)
    THEN [Map |-> [Map EXCEPT !.EntryCount = Len(Table)],
          Status |-> "EFI_BUFFER_TOO_SMALL"]
    ELSE [Map |-> [Map EXCEPT !.Entries = Buffer(Table), !.EntryCount = Len(Table),
                              !.ArchSignature = 1],
          Status |-> "EFI_SUCCESS"]

-----------------------------------------------------------------------------
(* mMap: release, populate, size *)

\* FreePageTableMap ()
FreePageTableMap(Map) ==
  [Entries |-> NULL, ArchSignature |-> 0, EntryCount |-> 0, EntryPagesAllocated |-> 0]

\* PopulatePageTableMap () without its opening test of mMap.Entries and mMap.EntryCount
PopulatePageTableMap_NoGuard(Map, Table, ok) ==
  LET Zeroed == [Map EXCEPT
                   !.Entries = Buffer(<<>>),
                   !.EntryCount = (Map.EntryPagesAllocated * EFI_PAGE_SIZE)
                                    \div SizeofPageMapEntry]
      r == CreateFlatPageTable(Zeroed, Table, ok)
  IN [Map |-> r.Map, Status |-> r.Status, Called |-> TRUE]

\* PopulatePageTableMap ()
PopulatePageTableMap(Map, Table, ok) ==
  IF ~Map.Entries.alloc \/ Map.EntryCount = 0
    THEN [Map |-> Map, Status |-> "EFI_INVALID_PARAMETER", Called |-> FALSE]
    ELSE LET Zeroed == [Map EXCEPT
                          !.Entries = Buffer(<<>>),
                          !.EntryCount = (Map.EntryPagesAllocated * EFI_PAGE_SIZE)
                                           \div SizeofPageMapEntry]
             r == CreateFlatPageTable(Zeroed, Table, ok)
         IN [Map |-> r.Map, Status |-> r.Status, Called |-> TRUE]

\* The reallocation test of ValidatePageTableMapSize
NeedsRealloc(RequiredPages, AllocatedPages) == RequiredPages >= AllocatedPages

\* Growth that forgets the 20% headroom
GrownEntryCount_NoHeadroom(Required) == Required

\* The entry count ValidatePageTableMapSize allocates for
GrownEntryCount(Required) == Required + (Required \div 5)

\* ValidatePageTableMapSize (); allocOk is whether AllocatePages succeeds
ValidatePageTableMapSize(Map, Table, ok, allocOk) ==
  LET Local == [Entries |-> NULL, ArchSignature |-> 0, EntryCount |-> 0,
                EntryPagesAllocated |-> 0]
      r == CreateFlatPageTable(Local, Table, ok)
  IN IF r.Status /= "EFI_BUFFER_TOO_SMALL"
       THEN [Map |-> Map, Status |-> "EFI_ABORTED", Realloc |-> FALSE, Required |-> 0]
       ELSE LET Required == r.Map.EntryCount
                Pages == EFI_SIZE_TO_PAGES(Required * SizeofPageMapEntry)
            IN IF NeedsRealloc(Pages, Map.EntryPagesAllocated)
                 THEN LET Freed == FreePageTableMap(Map)
                          Count == GrownEntryCount(Required)
                          NewPages == EFI_SIZE_TO_PAGES(Count * SizeofPageMapEntry)
                          New == [Freed EXCEPT
                                    !.EntryCount = Count,
                                    !.EntryPagesAllocated = NewPages,
                                    !.Entries = IF allocOk THEN Buffer(<<>>) ELSE NULL]
                      IN [Map |-> New,
                          Status |-> IF allocOk THEN "EFI_SUCCESS"
                                                ELSE "EFI_OUT_OF_RESOURCES",
                          Realloc |-> TRUE, Required |-> Required]
                 ELSE [Map |-> Map, Status |-> "EFI_SUCCESS", Realloc |-> FALSE,
                       Required |-> Required]

-----------------------------------------------------------------------------
(* GetRegionAccessAttributes: the attribute query of FlatPageTableLib *)

EntryEnd(e) == e.LinearAddress + e.Length

\* The table is sorted ascending by base and its entries do not overlap
WellFormed(Entries) ==
  \A i \in 1..Len(Entries) : \A j \in 1..Len(Entries) :
    i < j => EntryEnd(Entries[i]) <= Entries[j].LinearAddress

\* Index of the last entry of the run of contiguous entries with the attributes
\* of entry i that starts at entry i
RECURSIVE RunEnd(_, _)
RunEnd(Entries, i) ==
  IF i < Len(Entries)
     /\ Entries[i + 1].LinearAddress = EntryEnd(Entries[i])
     /\ Entries[i + 1].Attr = Entries[i].Attr
    THEN RunEnd(Entries, i + 1)
    ELSE i

Min(a, b) == IF a <= b THEN a ELSE b

\* GetRegionAccessAttributes (Map, Address, Length, &Attributes, &CheckedLength)
\*   EFI_SUCCESS     the attributes hold for the whole of [Address, Address+Length)
\*   EFI_NOT_FOUND   the attributes hold for the first CheckedLength bytes only
\*   EFI_NO_MAPPING  Address lies in a gap; CheckedLength is 0
\*   MALFORMED_TABLE the table is unsorted or has overlapping entries
GetRegionAccessAttributes(Map, Address, Length) ==
  LET Entries == SubSeq(Map.Entries.data, 1, Min(Map.EntryCount, Len(Map.Entries.data)))
      Hit == {i \in 1..Len(Entries) :
                Entries[i].LinearAddress <= Address /\ Address < EntryEnd(Entries[i])}
  IN IF ~WellFormed(Entries)
       THEN [Status |-> "MALFORMED_TABLE", Attributes |-> {}, CheckedLength |-> 0]
     ELSE IF Hit = {}
       THEN [Status |-> "EFI_NO_MAPPING", Attributes |-> {}, CheckedLength |-> 0]
     ELSE LET i == CHOOSE h \in Hit : TRUE
              Covered == Min(EntryEnd(Entries[RunEnd(Entries, i)]), Address + Length) - Address
          IN [Status |-> IF Covered = Length THEN "EFI_SUCCESS" ELSE "EFI_NOT_FOUND",
              Attributes |-> Entries[i].Attr,
              CheckedLength |-> Covered]

-----------------------------------------------------------------------------
(* ValidateRegionAttributes *)

\* A comparison that, matching all, wants exactly the required attributes
AttributeMismatch_Exact(RegionAttributes, RequiredAttributes, MatchAnyAttribute) ==
  \/ (~MatchAnyAttribute /\ RegionAttributes /= RequiredAttributes)
  \/ (MatchAnyAttribute /\ (RegionAttributes \cap RequiredAttributes) = {})

\* The attribute comparison of one classified sub-range: TRUE when it mismatches
AttributeMismatch(RegionAttributes, RequiredAttributes, MatchAnyAttribute) ==
  \/ (~MatchAnyAttribute /\ (RegionAttributes \cap RequiredAttributes) /= RequiredAttributes)
  \/ (MatchAnyAttribute /\ (RegionAttributes \cap RequiredAttributes) = {})

\* SafeUint64Add (Augend, Addend, &Result): an error when the sum does not fit
SafeUint64AddOverflows(Augend, Addend) == Augend + Addend > MaxUint

\* One pass of the do-while body and, unless it breaks, the passes after it.
\* acc carries AttributesMatch, the sub-ranges examined so far and how the
\* loop ended.
RECURSIVE ValidateLoop(_, _, _, _, _, _, _)
ValidateLoop(Map, Address, Length, RequiredAttributes, MatchAnyAttribute, AllowUnmappedRegions, acc) ==
  LET q == GetRegionAccessAttributes(Map, Address, Length)
      Mapped == q.Status \in {"EFI_SUCCESS", "EFI_NOT_FOUND"}
      Seg == [Address |-> Address, Length |-> Length, Status |-> q.Status,
              Attributes |-> q.Attributes, CheckedLength |-> q.CheckedLength,
              Mismatch |-> Mapped /\ AttributeMismatch(q.Attributes, RequiredAttributes,
                                                       MatchAnyAttribute)]
      seen == [acc EXCEPT !.Segments = Append(@, Seg)]
  IN IF q.Status \in {"EFI_SUCCESS", "EFI_NOT_FOUND", "EFI_NO_MAPPING"}
       THEN LET Bad == IF q.Status = "EFI_NO_MAPPING"
                         THEN ~AllowUnmappedRegions
                         ELSE AttributeMismatch(q.Attributes, RequiredAttributes,
                                                MatchAnyAttribute)
                a1 == [seen EXCEPT !.AttributesMatch = @ /\ ~Bad]
            IN IF q.CheckedLength = 0
                 THEN [a1 EXCEPT !.AttributesMatch = FALSE, !.Exit = "no progress"]
               ELSE IF SafeUint64AddOverflows(Address, q.CheckedLength)
                 THEN [a1 EXCEPT !.Exit = "overflow", !.Remaining = Length]
               ELSE IF Length - q.CheckedLength > 0
                 THEN ValidateLoop(Map, Address + q.CheckedLength, Length - q.CheckedLength,
                                   RequiredAttributes, MatchAnyAttribute,
                                   AllowUnmappedRegions, a1)
               ELSE [a1 EXCEPT !.Exit = "done", !.Remaining = 0]
       ELSE [seen EXCEPT !.AttributesMatch = FALSE, !.Exit = "unexpected status"]

\* A loop that returns at the first sub-range that fails
RECURSIVE ValidateLoop_StopsAtFailure(_, _, _, _, _, _, _)
ValidateLoop_StopsAtFailure(Map, Address, Length, RequiredAttributes, MatchAnyAttribute, AllowUnmappedRegions, acc) ==
  LET one == ValidateLoop(Map, Address, Length, RequiredAttributes, MatchAnyAttribute,
                          AllowUnmappedRegions, acc)
      first == one.Segments[Len(acc.Segments) + 1]
  IN IF first.Mismatch \/ first.CheckedLength = 0
        \/ SafeUint64AddOverflows(Address, first.CheckedLength)
        \/ Length - first.CheckedLength = 0
       THEN [one EXCEPT !.Segments = Append(acc.Segments, first),
                        !.AttributesMatch = acc.AttributesMatch /\ ~first.Mismatch
                                            /\ first.CheckedLength /= 0
                                            /\ (first.Status = "EFI_NO_MAPPING"
                                                   => AllowUnmappedRegions)
                                            /\ first.Status /= "MALFORMED_TABLE"]
       ELSE ValidateLoop_StopsAtFailure(Map, Address + first.CheckedLength,
                                        Length - first.CheckedLength, RequiredAttributes,
                                        MatchAnyAttribute, AllowUnmappedRegions,
                                        [acc EXCEPT !.Segments = Append(@, first)])

ValidateRegionAttributes_StopsAtFailure(Map, Address, Length, RequiredAttributes, MatchAnyAttribute, AllowUnmappedRegions) ==
  ValidateLoop_StopsAtFailure(Map, Address, Length, RequiredAttributes, MatchAnyAttribute,
                              AllowUnmappedRegions,
                              [AttributesMatch |-> TRUE, Segments |-> <<>>, Exit |-> "running",
                               Remaining |-> Length])

\* A loop that marks the region failed when the addition overflows
ValidateRegionAttributes_OverflowFails(Map, Address, Length, RequiredAttributes, MatchAnyAttribute, AllowUnmappedRegions) ==
  LET r == ValidateLoop(Map, Address, Length, RequiredAttributes, MatchAnyAttribute,
                        AllowUnmappedRegions,
                        [AttributesMatch |-> TRUE, Segments |-> <<>>, Exit |-> "running",
                         Remaining |-> Length])
  IN IF r.Exit = "overflow" THEN [r EXCEPT !.AttributesMatch = FALSE] ELSE r

\* A loop that asks once more, for the same range, before it gives up on a
\* covered length of 0
ValidateRegionAttributes_AsksTwice(Map, Address, Length, RequiredAttributes, MatchAnyAttribute, AllowUnmappedRegions) ==
  LET r == ValidateLoop(Map, Address, Length, RequiredAttributes, MatchAnyAttribute,
                        AllowUnmappedRegions,
                        [AttributesMatch |-> TRUE, Segments |-> <<>>, Exit |-> "running",
                         Remaining |-> Length])
  IN IF r.Exit = "no progress"
       THEN [r EXCEPT !.Segments = Append(@, r.Segments[Len(r.Segments)])]
       ELSE r

\* ValidateRegionAttributes (Map, Address, Length, RequiredAttributes,
\*                           MatchAnyAttribute, AllowUnmappedRegions, Log)
ValidateRegionAttributes(Map, Address, Length, RequiredAttributes, MatchAnyAttribute, AllowUnmappedRegions) ==
  ValidateLoop(Map, Address, Length, RequiredAttributes, MatchAnyAttribute,
               AllowUnmappedRegions,
               [AttributesMatch |-> TRUE, Segments |-> <<>>, Exit |-> "running",
                Remaining |-> Length])

-----------------------------------------------------------------------------
(* State after load: every global is NULL or zero (lines 44-60) *)

EmptyMap == [Entries |-> NULL, ArchSignature |-> 0, EntryCount |-> 0,
             EntryPagesAllocated |-> 0]

\* No producer invoked yet; the suite not started
NoCalls == [CreateFlatPageTable |-> 0, GetSpecialRegions |-> 0, GetImageList |-> 0,
            GetMemorySpaceMap |-> 0, GetMemoryMap |-> 0]
NotRunning == [test |-> 0, phase |-> "idle"]

InitGlobals ==
  /\ mMap = EmptyMap
  /\ mSpecialRegions = NULL
  /\ mSpecialRegionCount = 0
  /\ mNonProtectedImageList = NULL
  /\ mMemorySpaceMap = NULL
  /\ mMemorySpaceMapCount = 0
  /\ mEfiMemoryMap = NULL
  /\ mEfiMemoryMapSize = 0
  /\ mEfiMemoryMapDescriptorSize = 0
  /\ calls = NoCalls
  /\ pc = NotRunning
  /\ args = NoCall
  /\ last = NoCall

\* A producer that is absent or fails, and one that returns data
Unavailable == [avail |-> FALSE, data |-> <<>>]
Available(d) == [avail |-> TRUE, data |-> d]

exemptionVars == <<mSpecialRegions, mSpecialRegionCount, mNonProtectedImageList,
                   mMemorySpaceMap, mMemorySpaceMapCount>>

efiVars == <<mEfiMemoryMap, mEfiMemoryMapSize, mEfiMemoryMapDescriptorSize>>

runVars == <<calls, pc>>

\* Number of entries the pages of Map can hold
Capacity(Map) == (Map.EntryPagesAllocated * EFI_PAGE_SIZE) \div SizeofPageMapEntry

-----------------------------------------------------------------------------
(* Calls on the page table map *)

ValidatePageTableMapSizeCall ==
  \E ok \in BOOLEAN, allocOk \in BOOLEAN :
    LET r == ValidatePageTableMapSize(mMap, platform.PageTable, ok, allocOk)
    IN /\ mMap' = r.Map
       /\ last' = [op |-> "ValidatePageTableMapSize", Status |-> r.Status,
                   Realloc |-> r.Realloc, Required |-> r.Required, Before |-> mMap]
       /\ UNCHANGED <<exemptionVars, platform, args, efiVars, runVars>>

PopulatePageTableMapCall ==
  \E ok \in BOOLEAN :
    LET r == PopulatePageTableMap(mMap, platform.PageTable, ok)
    IN /\ mMap' = r.Map
       /\ last' = [op |-> "PopulatePageTableMap", Status |-> r.Status,
                   Called |-> r.Called, Before |-> mMap]
       /\ UNCHANGED <<exemptionVars, platform, args, efiVars, runVars>>

FreePageTableMapCall ==
  /\ mMap' = FreePageTableMap(mMap)
  /\ last' = [op |-> "FreePageTableMap", Before |-> mMap]
  /\ UNCHANGED <<exemptionVars, platform, args, efiVars, runVars>>

\* The opening of every paging test (e.g. lines 997-998):
\*   UT_ASSERT_NOT_EFI_ERROR (ValidatePageTableMapSize ());
\*   UT_ASSERT_NOT_EFI_ERROR (PopulatePageTableMap ());
\* A failed assertion returns from the test at once.
PagingTestPrologue(Map, Table, ok, allocOk, ok2) ==
  LET v == ValidatePageTableMapSize(Map, Table, ok, allocOk)
      p == PopulatePageTableMap(v.Map, Table, ok2)
  IN IF v.Status /= "EFI_SUCCESS"
       THEN [Map |-> v.Map, Passed |-> FALSE, Validate |-> v.Status,
             Populate |-> "not called", Realloc |-> v.Realloc, Required |-> v.Required,
             Sized |-> v.Map]
       ELSE [Map |-> p.Map, Passed |-> p.Status = "EFI_SUCCESS", Validate |-> v.Status,
             Populate |-> p.Status, Realloc |-> v.Realloc, Required |-> v.Required,
             Sized |-> v.Map]

PagingTestPrologueCall ==
  \E ok \in BOOLEAN, allocOk \in BOOLEAN, ok2 \in BOOLEAN :
    LET r == PagingTestPrologue(mMap, platform.PageTable, ok, allocOk, ok2)
    IN /\ mMap' = r.Map
       /\ last' = [op |-> "PagingTestPrologue", Passed |-> r.Passed, ProducerOk |-> ok2,
                   Validate |-> r.Validate, Populate |-> r.Populate,
                   Realloc |-> r.Realloc, Required |-> r.Required,
                   Sized |-> r.Sized, Before |-> mMap]
       /\ UNCHANGED <<exemptionVars, platform, args, efiVars, runVars>>

\* The platform's translation structure changes between calls
PageTableChanges ==
  /\ \E n \in RequiredCounts :
       /\ n /= Len(platform.PageTable)
       /\ platform' = [platform EXCEPT !.PageTable = MakeTable(n)]
  /\ last' = [op |-> "PageTableChanges"]
  /\ UNCHANGED <<mMap, exemptionVars, args, efiVars, runVars>>

NoExemptionPlatform(Table) ==
  [PageTable |-> Table, Window |-> 0, SpecialRegions |-> Unavailable,
   NonProtectedImages |-> Unavailable, MemorySpaceMap |-> Unavailable]

InitMap ==
  /\ InitGlobals
  /\ platform \in {NoExemptionPlatform(MakeTable(n)) : n \in RequiredCounts}

NextMap ==
  \/ ValidatePageTableMapSizeCall
  \/ PopulatePageTableMapCall
  \/ FreePageTableMapCall
  \/ PagingTestPrologueCall
  \/ PageTableChanges

SpecMap == InitMap /\ [][NextMap]_vars

-----------------------------------------------------------------------------
(* The exemption sources: special regions, non-protected images, memory space map *)

SpecialRegion(Start, Length, EfiAttributes) == [Start |-> Start, Length |-> Length, EfiAttributes |-> EfiAttributes]
ImageRange(Base, Length) == [Base |-> Base, Length |-> Length]
GcdDescriptor(BaseAddress, Length, GcdMemoryType) == [BaseAddress |-> BaseAddress, Length |-> Length, GcdMemoryType |-> GcdMemoryType]

EfiGcdMemoryTypeNonExistent == "NonExistent"
EfiGcdMemoryTypeSystemMemory == "SystemMemory"
EfiGcdMemoryTypeMemoryMappedIo == "MemoryMappedIo"

\* The exemption globals as one value
Exemptions(SR, SRCount, NPIL, MSM, MSMCount) == [mSpecialRegions |-> SR, mSpecialRegionCount |-> SRCount, mNonProtectedImageList |-> NPIL, mMemorySpaceMap |-> MSM, mMemorySpaceMapCount |-> MSMCount]

CurrentExemptions ==
  Exemptions(mSpecialRegions, mSpecialRegionCount, mNonProtectedImageList,
             mMemorySpaceMap, mMemorySpaceMapCount)

\* FreeSpecialRegions ()
FreeSpecialRegions(E) ==
  [E EXCEPT !.mSpecialRegions = NULL, !.mSpecialRegionCount = 0]

\* FreeNonProtectedImageList ()
FreeNonProtectedImageList(E) ==
  [E EXCEPT !.mNonProtectedImageList = NULL]

\* FreeMemorySpaceMap ()
FreeMemorySpaceMap(E) ==
  [E EXCEPT !.mMemorySpaceMap = NULL, !.mMemorySpaceMapCount = 0]

\* PopulateSpecialRegions (): Proto is what LocateProtocol and GetSpecialRegions give
PopulateSpecialRegions(E, Proto) ==
  IF E.mSpecialRegions.alloc
    THEN [E |-> E, Status |-> "EFI_SUCCESS"]
  ELSE IF Proto.avail
    THEN [E |-> [E EXCEPT !.mSpecialRegions = Buffer(Proto.data),
                          !.mSpecialRegionCount = Len(Proto.data)],
          Status |-> "EFI_SUCCESS"]
    ELSE [E |-> [E EXCEPT !.mSpecialRegions = NULL], Status |-> "EFI_NOT_FOUND"]

\* PopulateNonProtectedImageList ()
PopulateNonProtectedImageList(E, Proto) ==
  IF E.mNonProtectedImageList.alloc
    THEN [E |-> E, Status |-> "EFI_SUCCESS"]
  ELSE IF Proto.avail
    THEN [E |-> [E EXCEPT !.mNonProtectedImageList = Buffer(Proto.data)],
          Status |-> "EFI_SUCCESS"]
    ELSE [E |-> [E EXCEPT !.mNonProtectedImageList = NULL], Status |-> "EFI_NOT_FOUND"]

\* Insert descriptor d into a sequence sorted by BaseAddress
RECURSIVE InsertByBase(_, _)
InsertByBase(d, sorted) ==
  IF sorted = <<>> THEN <<d>>
  ELSE IF d.BaseAddress < Head(sorted).BaseAddress THEN <<d>> \o sorted
  ELSE <<Head(sorted)>> \o InsertByBase(d, Tail(sorted))

\* SortMemorySpaceMap (Map, Count, DescriptorSize): ascending by BaseAddress
RECURSIVE SortMemorySpaceMap(_)
SortMemorySpaceMap(map) ==
  IF map = <<>> THEN <<>>
  ELSE InsertByBase(Head(map), SortMemorySpaceMap(Tail(map)))

\* PopulateMemorySpaceMap (): Gcd is what gDS->GetMemorySpaceMap gives
PopulateMemorySpaceMap(E, Gcd) ==
  IF E.mMemorySpaceMap.alloc
    THEN [E |-> E, Status |-> "EFI_SUCCESS"]
  ELSE IF Gcd.avail
    THEN [E |-> [E EXCEPT !.mMemorySpaceMap = Buffer(SortMemorySpaceMap(Gcd.data)),
                          !.mMemorySpaceMapCount = Len(Gcd.data)],
          Status |-> "EFI_SUCCESS"]
    ELSE [E |-> [E EXCEPT !.mMemorySpaceMap = NULL], Status |-> "EFI_OUT_OF_RESOURCES"]

\* A cleanup that leaves the memory space map in place
GeneralTestCleanup_KeepsMemorySpaceMap(E) ==
  LET e1 == IF E.mSpecialRegions.alloc THEN FreeSpecialRegions(E) ELSE E
  IN IF e1.mNonProtectedImageList.alloc THEN FreeNonProtectedImageList(e1) ELSE e1

\* GeneralTestCleanup (Context)
GeneralTestCleanup(E) ==
  LET e1 == IF E.mSpecialRegions.alloc THEN FreeSpecialRegions(E) ELSE E
      e2 == IF e1.mNonProtectedImageList.alloc THEN FreeNonProtectedImageList(e1) ELSE e1
  IN IF e2.mMemorySpaceMap.alloc THEN FreeMemorySpaceMap(e2) ELSE e2

-----------------------------------------------------------------------------
(* CanRegionBeRWX *)

\* CHECK_SUBSUMPTION (AStart, AEnd, BStart, BEnd): TRUE if A subsumes B
CHECK_SUBSUMPTION(AStart, AEnd, BStart, BEnd) == (AStart <= BStart) /\ (AEnd >= BEnd)

\* The loop over mSpecialRegions (lines 658-671)
SpecialRegionExempts(E, Address, Length) ==
  /\ E.mSpecialRegions.alloc
  /\ \E i \in 1..E.mSpecialRegionCount :
       LET r == E.mSpecialRegions.data[i]
       IN /\ CHECK_SUBSUMPTION(r.Start, Add64(r.Start, r.Length),
                               Address, Add64(Address, Length))
          /\ r.EfiAttributes = {}

\* The loop over mNonProtectedImageList (lines 673-689)
NonProtectedImageExempts(E, Address, Length) ==
  /\ E.mNonProtectedImageList.alloc
  /\ \E i \in 1..Len(E.mNonProtectedImageList.data) :
       LET r == E.mNonProtectedImageList.data[i]
       IN CHECK_SUBSUMPTION(r.Base, Add64(r.Base, r.Length),
                            Address, Add64(Address, Length))

\* The loop over mMemorySpaceMap (lines 691-704)
MemorySpaceExempts(E, Address, Length) ==
  /\ E.mMemorySpaceMap.alloc
  /\ \E i \in 1..E.mMemorySpaceMapCount :
       LET r == E.mMemorySpaceMap.data[i]
       IN /\ CHECK_SUBSUMPTION(r.BaseAddress, Add64(r.BaseAddress, r.Length),
                               Address, Add64(Address, Length))
          /\ r.GcdMemoryType = EfiGcdMemoryTypeNonExistent

\* CanRegionBeRWX that answers TRUE when it has no special regions and no image list
CanRegionBeRWX_FailOpen(E, Address, Length) ==
  IF ~E.mNonProtectedImageList.alloc /\ ~E.mSpecialRegions.alloc
    THEN TRUE
    ELSE \/ SpecialRegionExempts(E, Address, Length)
         \/ NonProtectedImageExempts(E, Address, Length)
         \/ MemorySpaceExempts(E, Address, Length)

\* CanRegionBeRWX (Address, Length)
CanRegionBeRWX(E, Address, Length) ==
  IF ~E.mNonProtectedImageList.alloc /\ ~E.mSpecialRegions.alloc
    THEN FALSE
    ELSE \/ SpecialRegionExempts(E, Address, Length)
         \/ NonProtectedImageExempts(E, Address, Length)
         \/ MemorySpaceExempts(E, Address, Length)

-----------------------------------------------------------------------------
(* Calls on the exemption sources *)

SetExemptions(E) ==
  /\ mSpecialRegions' = E.mSpecialRegions
  /\ mSpecialRegionCount' = E.mSpecialRegionCount
  /\ mNonProtectedImageList' = E.mNonProtectedImageList
  /\ mMemorySpaceMap' = E.mMemorySpaceMap
  /\ mMemorySpaceMapCount' = E.mMemorySpaceMapCount

PopulateSpecialRegionsCall ==
  LET r == PopulateSpecialRegions(CurrentExemptions, platform.SpecialRegions)
  IN /\ SetExemptions(r.E)
     /\ last' = [op |-> "PopulateSpecialRegions", Status |-> r.Status]
     /\ UNCHANGED <<mMap, platform, args, efiVars, runVars>>

PopulateNonProtectedImageListCall ==
  LET r == PopulateNonProtectedImageList(CurrentExemptions, platform.NonProtectedImages)
  IN /\ SetExemptions(r.E)
     /\ last' = [op |-> "PopulateNonProtectedImageList", Status |-> r.Status]
     /\ UNCHANGED <<mMap, platform, args, efiVars, runVars>>

PopulateMemorySpaceMapCall ==
  LET r == PopulateMemorySpaceMap(CurrentExemptions, platform.MemorySpaceMap)
  IN /\ SetExemptions(r.E)
     /\ last' = [op |-> "PopulateMemorySpaceMap", Status |-> r.Status]
     /\ UNCHANGED <<mMap, platform, args, efiVars, runVars>>

GeneralTestCleanupCall ==
  /\ SetExemptions(GeneralTestCleanup(CurrentExemptions))
  /\ last' = [op |-> "GeneralTestCleanup"]
  /\ UNCHANGED <<mMap, platform, args, efiVars, runVars>>

\* Query ranges: page multiples at the bottom and at the top of the address
\* space, none reaching past the top
QueryAddresses == {0, EFI_PAGE_SIZE, Modulus - 2 * EFI_PAGE_SIZE, Modulus - EFI_PAGE_SIZE}
QueryLengths == {EFI_PAGE_SIZE, 2 * EFI_PAGE_SIZE}

CanRegionBeRWXCall ==
  \E Address \in QueryAddresses, Length \in QueryLengths :
    /\ Address + Length <= Modulus
    /\ last' = [op |-> "CanRegionBeRWX", Address |-> Address, Length |-> Length,
                Result |-> CanRegionBeRWX(CurrentExemptions, Address, Length)]
    /\ UNCHANGED <<mMap, exemptionVars, platform, args, efiVars, runVars>>

\* What the exemption producers may report
RegionStarts == {0, Modulus - 2 * EFI_PAGE_SIZE}
RegionLengths == {EFI_PAGE_SIZE, 2 * EFI_PAGE_SIZE}

SpecialRegionItems ==
  {SpecialRegion(b, l, a) : b \in RegionStarts, l \in RegionLengths,
                            a \in {{}, {EFI_MEMORY_XP}}}

SpecialRegionLists ==
  {<<r>> : r \in SpecialRegionItems}
  \cup {<<SpecialRegion(0, EFI_PAGE_SIZE, {EFI_MEMORY_XP}), r>> :
          r \in {x \in SpecialRegionItems : x.EfiAttributes = {}}}

ImageLists ==
  {<<>>} \cup {<<ImageRange(b, l)>> : b \in RegionStarts, l \in RegionLengths}

GcdTypes == {EfiGcdMemoryTypeNonExistent, EfiGcdMemoryTypeSystemMemory}

\* Two descriptors, low and high, reported in either order
GcdMaps ==
  {<<GcdDescriptor(0, 2 * EFI_PAGE_SIZE, t1),
     GcdDescriptor(Modulus - 2 * EFI_PAGE_SIZE, EFI_PAGE_SIZE, t2)>> :
       t1 \in GcdTypes, t2 \in GcdTypes}
  \cup {<<GcdDescriptor(Modulus - 2 * EFI_PAGE_SIZE, EFI_PAGE_SIZE, EfiGcdMemoryTypeNonExistent),
          GcdDescriptor(0, 2 * EFI_PAGE_SIZE, EfiGcdMemoryTypeSystemMemory)>>}

Producers(Lists) == {Unavailable} \cup {Available(l) : l \in Lists}

InitRwx ==
  /\ InitGlobals
  /\ platform \in [PageTable : {MakeTable(1)}, Window : {0},
                    SpecialRegions : Producers(SpecialRegionLists),
                    NonProtectedImages : Producers(ImageLists),
                    MemorySpaceMap : Producers(GcdMaps)]

NextRwx ==
  \/ PopulateSpecialRegionsCall
  \/ PopulateNonProtectedImageListCall
  \/ PopulateMemorySpaceMapCall
  \/ GeneralTestCleanupCall
  \/ CanRegionBeRWXCall

SpecRwx == InitRwx /\ [][NextRwx]_vars

-----------------------------------------------------------------------------
(* Calls of the region validator *)

\* mMap holds a populated table
MapPopulated == mMap.Entries.alloc /\ mMap.ArchSignature = 1

ValidateRegionAttributesCall ==
  /\ MapPopulated
  /\ args.op = "ValidateRegionAttributes"
  /\ last' = [op |-> "ValidateRegionAttributes",
              Result |-> ValidateRegionAttributes(mMap, args.Address, args.Length,
                                                  args.RequiredAttributes,
                                                  args.MatchAnyAttribute,
                                                  args.AllowUnmappedRegions)]
  /\ UNCHANGED <<mMap, exemptionVars, platform, args, efiVars, runVars>>

\* NullPageIsRp (Context)
NullPageIsRp(Map, Table, ok, allocOk, ok2) ==
  LET pro == PagingTestPrologue(Map, Table, ok, allocOk, ok2)
      v == ValidateRegionAttributes(pro.Map, 0, EFI_PAGE_SIZE, {EFI_MEMORY_RP}, TRUE, TRUE)
  IN IF ~pro.Passed
       THEN [Map |-> pro.Map, Passed |-> FALSE, Walked |-> FALSE]
       ELSE [Map |-> pro.Map, Passed |-> v.AttributesMatch, Walked |-> TRUE]

NullPageIsRpCall ==
  \E ok \in BOOLEAN, allocOk \in BOOLEAN, ok2 \in BOOLEAN :
    LET r == NullPageIsRp(mMap, platform.PageTable, ok, allocOk, ok2)
    IN /\ mMap' = r.Map
       /\ last' = [op |-> "NullPageIsRp", Passed |-> r.Passed, Walked |-> r.Walked]
       /\ UNCHANGED <<exemptionVars, platform, args, efiVars, runVars>>

\* Tables over a window of three pages: each page unmapped or mapped with one
\* of three attribute sets, one entry per mapped page
PageChoices == {<<>>, <<{}>>, <<{EFI_MEMORY_RP}>>, <<{EFI_MEMORY_RO, EFI_MEMORY_XP}>>}

PageEntries(w, k, c) ==
  IF c = <<>> THEN <<>> ELSE <<MapEntry(w + k * EFI_PAGE_SIZE, EFI_PAGE_SIZE, c[1])>>

WindowTable(w, c0, c1, c2) == PageEntries(w, 0, c0) \o PageEntries(w, 1, c1) \o PageEntries(w, 2, c2)

\* Adjacent entries with equal attributes joined into one entry
RECURSIVE Merged(_)
Merged(t) ==
  IF Len(t) < 2 THEN t
  ELSE IF EntryEnd(t[1]) = t[2].LinearAddress /\ t[1].Attr = t[2].Attr
    THEN Merged(<<MapEntry(t[1].LinearAddress, t[1].Length + t[2].Length, t[1].Attr)>>
                  \o SubSeq(t, 3, Len(t)))
    ELSE <<t[1]>> \o Merged(Tail(t))

\* The window sits at the bottom or at the top of the address space
Windows == {0, Modulus - 3 * EFI_PAGE_SIZE}

WindowTables(w) ==
  LET per == {WindowTable(w, c0, c1, c2) : c0 \in PageChoices, c1 \in PageChoices,
                                           c2 \in PageChoices} \ {<<>>}
  IN per \cup {Merged(t) : t \in per}

\* Tables that break the sorted, non-overlapping rule
MalformedTables(w) ==
  {<<MapEntry(w, 2 * EFI_PAGE_SIZE, {EFI_MEMORY_RP}),
     MapEntry(w + EFI_PAGE_SIZE, EFI_PAGE_SIZE, {})>>,
   <<MapEntry(w + EFI_PAGE_SIZE, EFI_PAGE_SIZE, {EFI_MEMORY_RP}),
     MapEntry(w, EFI_PAGE_SIZE, {EFI_MEMORY_RP})>>}

\* Ranges asked about: empty, within the window, across it, and past its end
RequestRanges(w) ==
  {<<w, 0>>, <<w, EFI_PAGE_SIZE>>, <<w, 3 * EFI_PAGE_SIZE>>,
   <<w + EFI_PAGE_SIZE, 2 * EFI_PAGE_SIZE>>, <<w + 2 * EFI_PAGE_SIZE, 2 * EFI_PAGE_SIZE>>}

Requests(w) ==
  {[op |-> "ValidateRegionAttributes", Address |-> r[1], Length |-> r[2],
    RequiredAttributes |-> req, MatchAnyAttribute |-> any, AllowUnmappedRegions |-> un] :
      r \in RequestRanges(w), req \in SUBSET AttrBits, any \in BOOLEAN, un \in BOOLEAN}

\* A populated map holding table t
PopulatedMap(t) ==
  [Entries |-> Buffer(t), ArchSignature |-> 1, EntryCount |-> Len(t),
   EntryPagesAllocated |-> EFI_SIZE_TO_PAGES(GrownEntryCount(Len(t)) * SizeofPageMapEntry)]

\* ValidateRegionAttributes as a function of its arguments: the map is
\* populated, the request is drawn from Requests
InitValidate ==
  /\ \E w \in Windows : \E t \in WindowTables(w) \cup MalformedTables(w) :
       /\ platform = [NoExemptionPlatform(t) EXCEPT !.Window = w]
       /\ mMap = PopulatedMap(t)
       /\ args \in Requests(w)
  /\ mSpecialRegions = NULL
  /\ mSpecialRegionCount = 0
  /\ mNonProtectedImageList = NULL
  /\ mMemorySpaceMap = NULL
  /\ mMemorySpaceMapCount = 0
  /\ mEfiMemoryMap = NULL
  /\ mEfiMemoryMapSize = 0
  /\ mEfiMemoryMapDescriptorSize = 0
  /\ calls = NoCalls
  /\ pc = NotRunning
  /\ last = NoCall

NextValidate == ValidateRegionAttributesCall

SpecValidate == InitValidate /\ [][NextValidate]_vars

\* The null page test on every table of the bottom window
InitNullPage ==
  /\ InitGlobals
  /\ platform \in {NoExemptionPlatform(t) : t \in WindowTables(0) \cup MalformedTables(0)}

NextNullPage ==
  \/ PagingTestPrologueCall
  \/ NullPageIsRpCall
  \/ FreePageTableMapCall

SpecNullPage == InitNullPage /\ [][NextNullPage]_vars

-----------------------------------------------------------------------------
(* NoReadWriteExecute *)

\* IsPageReadable / IsPageWritable / IsPageExecutable (PageEntry): the access the
\* entry grants, read off its attributes
IsPageReadable(e) == EFI_MEMORY_RP \notin e.Attr
IsPageWritable(e) == EFI_MEMORY_RO \notin e.Attr
IsPageExecutable(e) == EFI_MEMORY_XP \notin e.Attr

\* The entry at Index is read/write/execute and CanRegionBeRWX refuses it
IsOffender(E, Map, Index) ==
  LET e == Map.Entries.data[Index]
  IN /\ IsPageExecutable(e) /\ IsPageReadable(e) /\ IsPageWritable(e)
     /\ ~CanRegionBeRWX(E, e.LinearAddress, e.Length)

\* The range the error line names
LoggedRange(e) == <<e.LinearAddress, Add64(e.LinearAddress, e.Length)>>

\* A walk that ends at the first offender
RECURSIVE RwxWalk_StopsAtFirst(_, _, _, _)
RwxWalk_StopsAtFirst(E, Map, Index, Offenders) ==
  IF Index > Map.EntryCount THEN Offenders
  ELSE IF IsOffender(E, Map, Index)
    THEN Append(Offenders, LoggedRange(Map.Entries.data[Index]))
    ELSE RwxWalk_StopsAtFirst(E, Map, Index + 1, Offenders)

\* for ( ; Index < mMap.EntryCount; Index++): the ranges logged as offenders
RECURSIVE RwxWalk(_, _, _, _)
RwxWalk(E, Map, Index, Offenders) ==
  IF Index > Map.EntryCount THEN Offenders
  ELSE RwxWalk(E, Map, Index + 1,
               IF IsOffender(E, Map, Index)
                 THEN Append(Offenders, LoggedRange(Map.Entries.data[Index]))
                 ELSE Offenders)

\* NoReadWriteExecute (Context): P is the platform, ok/allocOk/ok2 the outcomes
\* of the page table producer and of the allocation
NoReadWriteExecute(Map, E, P, ok, allocOk, ok2) ==
  LET s == PopulateSpecialRegions(E, P.SpecialRegions).E
      n == PopulateNonProtectedImageList(s, P.NonProtectedImages).E
      v == ValidatePageTableMapSize(Map, P.PageTable, ok, allocOk)
      g == PopulateMemorySpaceMap(n, P.MemorySpaceMap)
      p == PopulatePageTableMap(v.Map, P.PageTable, ok2)
      Offenders == RwxWalk(g.E, p.Map, 1, <<>>)
      Stop(m, e) == [Map |-> m, E |-> e, Passed |-> FALSE, Walked |-> FALSE,
                     Offenders |-> <<>>]
  IN IF v.Status /= "EFI_SUCCESS" THEN Stop(v.Map, n)
     ELSE IF g.Status /= "EFI_SUCCESS" THEN Stop(v.Map, g.E)
     ELSE IF ~g.E.mMemorySpaceMap.alloc THEN Stop(v.Map, g.E)
     ELSE IF p.Status /= "EFI_SUCCESS" THEN Stop(p.Map, g.E)
     ELSE [Map |-> p.Map, E |-> g.E, Passed |-> Offenders = <<>>, Walked |-> TRUE,
           Offenders |-> Offenders]

NoReadWriteExecuteCall ==
  \E ok \in BOOLEAN, allocOk \in BOOLEAN, ok2 \in BOOLEAN :
    LET r == NoReadWriteExecute(mMap, CurrentExemptions, platform, ok, allocOk, ok2)
    IN /\ mMap' = r.Map
       /\ SetExemptions(r.E)
       /\ last' = [op |-> "NoReadWriteExecute", Passed |-> r.Passed, Walked |-> r.Walked,
                   Offenders |-> r.Offenders]
       /\ UNCHANGED <<platform, args, efiVars, runVars>>

\* Tables of up to three pages from 0x1000 on, each unmapped, read/write/execute
\* or execute-protected
RwxPageChoices == {<<>>, <<{}>>, <<{EFI_MEMORY_XP}>>}

RwxTables ==
  {WindowTable(EFI_PAGE_SIZE, c0, c1, c2) :
     c0 \in RwxPageChoices, c1 \in RwxPageChoices, c2 \in RwxPageChoices} \ {<<>>}

RwxSpecialRegionLists ==
  {<<SpecialRegion(EFI_PAGE_SIZE, EFI_PAGE_SIZE, {})>>,
   <<SpecialRegion(EFI_PAGE_SIZE, EFI_PAGE_SIZE, {EFI_MEMORY_XP})>>,
   <<SpecialRegion(EFI_PAGE_SIZE, 2 * EFI_PAGE_SIZE, {})>>}

RwxImageLists == {<<>>, <<ImageRange(3 * EFI_PAGE_SIZE, EFI_PAGE_SIZE)>>}

RwxGcdMaps ==
  {<<GcdDescriptor(0, 4 * EFI_PAGE_SIZE, EfiGcdMemoryTypeSystemMemory)>>,
   <<GcdDescriptor(2 * EFI_PAGE_SIZE, EFI_PAGE_SIZE, EfiGcdMemoryTypeNonExistent),
     GcdDescriptor(0, 2 * EFI_PAGE_SIZE, EfiGcdMemoryTypeSystemMemory)>>}

InitNoRwx ==
  /\ InitGlobals
  /\ platform \in [PageTable : RwxTables, Window : {EFI_PAGE_SIZE},
                    SpecialRegions : Producers(RwxSpecialRegionLists),
                    NonProtectedImages : Producers(RwxImageLists),
                    MemorySpaceMap : Producers(RwxGcdMaps)]

NextNoRwx ==
  \/ NoReadWriteExecuteCall
  \/ GeneralTestCleanupCall
  \/ FreePageTableMapCall

SpecNoRwx == InitNoRwx /\ [][NextNoRwx]_vars

-----------------------------------------------------------------------------
(* The EFI memory map: release, populate, size *)

EFI_MEMORY_DESCRIPTOR(Type, PhysicalStart, NumberOfPages) == [Type |-> Type, PhysicalStart |-> PhysicalStart, NumberOfPages |-> NumberOfPages]

EfiConventionalMemory == "EfiConventionalMemory"
EfiBootServicesData == "EfiBootServicesData"
EfiMemoryMappedIO == "EfiMemoryMappedIO"

\* The descriptor size gBS->GetMemoryMap reports
EfiDescriptorSize == 6 * 8

\* The EFI memory map globals as one value
EfiMap(Map, Size, DescriptorSize) == [mEfiMemoryMap |-> Map, mEfiMemoryMapSize |-> Size, mEfiMemoryMapDescriptorSize |-> DescriptorSize]

CurrentEfiMap == EfiMap(mEfiMemoryMap, mEfiMemoryMapSize, mEfiMemoryMapDescriptorSize)

SetEfiMap(M) ==
  /\ mEfiMemoryMap' = M.mEfiMemoryMap
  /\ mEfiMemoryMapSize' = M.mEfiMemoryMapSize
  /\ mEfiMemoryMapDescriptorSize' = M.mEfiMemoryMapDescriptorSize

\* gBS->GetMemoryMap (&Size, Buffer, ...): Fw is what the firmware holds.
\* Too small a buffer gives EFI_BUFFER_TOO_SMALL and the size needed.
GetMemoryMap(Size, Fw) ==
  IF ~Fw.avail
    THEN [Status |-> "EFI_INVALID_PARAMETER", Size |-> Size, DescriptorSize |-> 0, Map |-> <<>>]
  ELSE IF Size < Len(Fw.data) * EfiDescriptorSize
    THEN [Status |-> "EFI_BUFFER_TOO_SMALL", Size |-> Len(Fw.data) * EfiDescriptorSize,
          DescriptorSize |-> EfiDescriptorSize, Map |-> <<>>]
    ELSE [Status |-> "EFI_SUCCESS", Size |-> Len(Fw.data) * EfiDescriptorSize,
          DescriptorSize |-> EfiDescriptorSize, Map |-> Fw.data]

\* Insert descriptor d into a sequence sorted by PhysicalStart
RECURSIVE InsertByPhysicalStart(_, _)
InsertByPhysicalStart(d, sorted) ==
  IF sorted = <<>> THEN <<d>>
  ELSE IF d.PhysicalStart < Head(sorted).PhysicalStart THEN <<d>> \o sorted
  ELSE <<Head(sorted)>> \o InsertByPhysicalStart(d, Tail(sorted))

\* SortMemoryMap (Map, Size, DescriptorSize): ascending by PhysicalStart
RECURSIVE SortMemoryMap(_)
SortMemoryMap(map) ==
  IF map = <<>> THEN <<>>
  ELSE InsertByPhysicalStart(Head(map), SortMemoryMap(Tail(map)))

\* FreeEfiMemoryMap ()
FreeEfiMemoryMap(M) ==
  [M EXCEPT !.mEfiMemoryMap = NULL, !.mEfiMemoryMapSize = 0,
            !.mEfiMemoryMapDescriptorSize = 0]

\* PopulateEfiMemoryMap ()
PopulateEfiMemoryMap(M, Fw) ==
  IF ~M.mEfiMemoryMap.alloc \/ M.mEfiMemoryMapSize = 0
    THEN [M |-> M, Status |-> "EFI_INVALID_PARAMETER", Called |-> FALSE]
    ELSE LET r == GetMemoryMap(M.mEfiMemoryMapSize, Fw)
         IN [M |-> [M EXCEPT !.mEfiMemoryMap = Buffer(SortMemoryMap(r.Map)),
                             !.mEfiMemoryMapSize = r.Size,
                             !.mEfiMemoryMapDescriptorSize = r.DescriptorSize],
             Status |-> r.Status, Called |-> TRUE]

\* ValidateEfiMemoryMapSize (): allocOk is the outcome of AllocatePool
ValidateEfiMemoryMapSize(M, Fw, allocOk) ==
  LET r == GetMemoryMap(0, Fw)
      grown == r.Size + (r.Size \div 5)
  IN IF r.Status /= "EFI_BUFFER_TOO_SMALL"
       THEN [M |-> M, Status |-> "EFI_ABORTED"]
     ELSE IF r.Size >= M.mEfiMemoryMapSize
       THEN LET f == [FreeEfiMemoryMap(M) EXCEPT !.mEfiMemoryMapSize = grown]
            IN IF allocOk
                 THEN [M |-> [f EXCEPT !.mEfiMemoryMap = Buffer(<<>>)], Status |-> "EFI_SUCCESS"]
                 ELSE [M |-> f, Status |-> "EFI_OUT_OF_RESOURCES"]
       ELSE [M |-> M, Status |-> "EFI_SUCCESS"]

\* The descriptors the tests walk: from mEfiMemoryMap up to mEfiMemoryMapSize bytes
EfiMemoryMapEntries(M) ==
  SubSeq(M.mEfiMemoryMap.data, 1,
         Min(Len(M.mEfiMemoryMap.data),
             IF M.mEfiMemoryMapDescriptorSize = 0 THEN 0
             ELSE M.mEfiMemoryMapSize \div M.mEfiMemoryMapDescriptorSize))

-----------------------------------------------------------------------------
(* The opening calls of a test, over all globals at once *)

\* The globals as one value: the page table map, the exemption sources, the
\* EFI memory map
Globals(Map, E, M) == [Map |-> Map, E |-> E, M |-> M]

CurrentGlobals == Globals(mMap, CurrentExemptions, CurrentEfiMap)

SetGlobals(G) ==
  /\ mMap' = G.Map
  /\ SetExemptions(G.E)
  /\ SetEfiMap(G.M)

\* Outcomes the environment decides during one test: the page table producer
\* when sizing and when populating, AllocatePages, AllocatePool
Outcomes == [ok : BOOLEAN, allocOk : BOOLEAN, ok2 : BOOLEAN, poolOk : BOOLEAN]

AllSucceed == [ok |-> TRUE, allocOk |-> TRUE, ok2 |-> TRUE, poolOk |-> TRUE]

\* One more invocation of producer p
Invoked(c, p, n) == [c EXCEPT ![p] = @ + n]

\* What an opening call leaves: r is what the function called returned. A
\* Populate function invokes its producer unless it returned before the call;
\* UT_ASSERT_NOT_NULL (mMemorySpaceMap) follows PopulateMemorySpaceMap.
ExemptionStep(G, r, producer, populated) ==
  [G |-> [G EXCEPT !.E = r.E],
   Status |-> IF producer = "GetMemorySpaceMap" /\ r.Status = "EFI_SUCCESS"
                 /\ ~r.E.mMemorySpaceMap.alloc
                THEN "NULL" ELSE r.Status,
   Calls |-> Invoked(NoCalls, producer, IF populated THEN 0 ELSE 1)]

PageTableStep(G, r) ==
  [G |-> [G EXCEPT !.Map = r.Map], Status |-> r.Status,
   Calls |-> Invoked(NoCalls, "CreateFlatPageTable",
                     IF "Called" \in DOMAIN r /\ ~r.Called THEN 0 ELSE 1)]

EfiMemoryMapStep(G, r) ==
  [G |-> [G EXCEPT !.M = r.M], Status |-> r.Status,
   Calls |-> Invoked(NoCalls, "GetMemoryMap",
                     IF "Called" \in DOMAIN r /\ ~r.Called THEN 0 ELSE 1)]

\* One opening call: the globals after it, its status, the producers it invoked
DoStep(G, fn, P, o) ==
  CASE fn = "PopulateSpecialRegions" ->
         ExemptionStep(G, PopulateSpecialRegions(G.E, P.SpecialRegions),
                       "GetSpecialRegions", G.E.mSpecialRegions.alloc)
    [] fn = "PopulateNonProtectedImageList" ->
         ExemptionStep(G, PopulateNonProtectedImageList(G.E, P.NonProtectedImages),
                       "GetImageList", G.E.mNonProtectedImageList.alloc)
    [] fn = "PopulateMemorySpaceMap" ->
         ExemptionStep(G, PopulateMemorySpaceMap(G.E, P.MemorySpaceMap),
                       "GetMemorySpaceMap", G.E.mMemorySpaceMap.alloc)
    [] fn = "ValidatePageTableMapSize" ->
         PageTableStep(G, ValidatePageTableMapSize(G.Map, P.PageTable, o.ok, o.allocOk))
    [] fn = "PopulatePageTableMap" ->
         PageTableStep(G, PopulatePageTableMap(G.Map, P.PageTable, o.ok2))
    [] fn = "ValidateEfiMemoryMapSize" ->
         EfiMemoryMapStep(G, ValidateEfiMemoryMapSize(G.M, P.EfiMemoryMap, o.poolOk))
    [] fn = "PopulateEfiMemoryMap" ->
         EfiMemoryMapStep(G, PopulateEfiMemoryMap(G.M, P.EfiMemoryMap))

\* Calls whose status the test does not look at
Unasserted == {"PopulateSpecialRegions", "PopulateNonProtectedImageList"}

AddCalls(a, b) == [p \in DOMAIN a |-> a[p] + b[p]]

\* The opening calls in order; a failed UT_ASSERT returns from the test at once
RECURSIVE RunSteps(_, _, _, _, _)
\* The first of the steps returned r
StepReturns(r, steps, P, o, c) ==
  IF Head(steps) \notin Unasserted /\ r.Status /= "EFI_SUCCESS"
    THEN [G |-> r.G, Passed |-> FALSE, Calls |-> c, FailedAt |-> Head(steps)]
    ELSE RunSteps(r.G, Tail(steps), P, o, c)

StepCounted(r, steps, P, o, c) == StepReturns(r, steps, P, o, AddCalls(c, r.Calls))

RunSteps(G, steps, P, o, c) ==
  IF steps = <<>> THEN [G |-> G, Passed |-> TRUE, Calls |-> c, FailedAt |-> "none"]
  ELSE StepCounted(DoStep(G, Head(steps), P, o), steps, P, o, c)

\* One call of ValidateRegionAttributes on mMap, with what it was asked and
\* what it answered
ValidationOf(Address, Length, RequiredAttributes, MatchAnyAttribute, AllowUnmappedRegions, r) ==
  [Address |-> Address, Length |-> Length, RequiredAttributes |-> RequiredAttributes,
   MatchAnyAttribute |-> MatchAnyAttribute, AllowUnmappedRegions |-> AllowUnmappedRegions,
   Result |-> r.AttributesMatch, Exit |-> r.Exit]

Validation(Map, Address, Length, RequiredAttributes, MatchAnyAttribute, AllowUnmappedRegions) ==
  ValidationOf(Address, Length, RequiredAttributes, MatchAnyAttribute, AllowUnmappedRegions,
               ValidateRegionAttributes(Map, Address, Length, RequiredAttributes,
                                     MatchAnyAttribute, AllowUnmappedRegions))

\* TestFailure after the validations vs: none of them answered FALSE
NoTestFailure(vs) == \A i \in 1..Len(vs) : vs[i].Result

\* A test that did not get past its opening calls
TestStopped(r) ==
  [G |-> r.G, Passed |-> FALSE, Walked |-> FALSE, Calls |-> r.Calls,
   FailedAt |-> r.FailedAt, Validations |-> <<>>]

\* A test that walked: vs are the validations it made, extra its other findings
TestWalked(r, vs, extra) ==
  [G |-> r.G, Passed |-> NoTestFailure(vs) /\ ~extra, Walked |-> TRUE, Calls |-> r.Calls,
   FailedAt |-> "none", Validations |-> vs]

-----------------------------------------------------------------------------
(* The tests over the EFI memory map *)

Mul64(a, b) == (a * b) % Modulus
Sub64(a, b) == (a - b + Modulus) % Modulus

\* A loop over the EFI memory map that leaves at the first region whose
\* validation met an unexpected status
ValidateMemoryMapType_StopsAtUnexpected(G, Type, RequiredAttributes) ==
  LET Keep(d) == d.Type = Type
      Check(d) == Validation(G.Map, d.PhysicalStart, Mul64(d.NumberOfPages, EFI_PAGE_SIZE),
                             RequiredAttributes, TRUE, TRUE)
      sel == SelectSeq(EfiMemoryMapEntries(G.M), Keep)
      vs == [i \in 1..Len(sel) |-> Check(sel[i])]
      Stops == {i \in 1..Len(vs) : vs[i].Exit = "unexpected status"}
  IN IF Stops = {} THEN vs
     ELSE SubSeq(vs, 1, CHOOSE i \in Stops : \A j \in Stops : i <= j)

\* The loop over the EFI memory map of UnallocatedMemoryIsRP and MmioIsXp:
\* every descriptor of the given type is validated
ValidateMemoryMapType(G, Type, RequiredAttributes) ==
  LET Keep(d) == d.Type = Type
      Check(d) == Validation(G.Map, d.PhysicalStart, Mul64(d.NumberOfPages, EFI_PAGE_SIZE),
                             RequiredAttributes, TRUE, TRUE)
      sel == SelectSeq(EfiMemoryMapEntries(G.M), Keep)
  IN [i \in 1..Len(sel) |-> Check(sel[i])]

\* UnallocatedMemoryIsRP (Context)
UnallocatedMemoryIsRPBody(r) ==
  IF ~r.Passed THEN TestStopped(r)
  ELSE TestWalked(r, ValidateMemoryMapType(r.G, EfiConventionalMemory, {EFI_MEMORY_RP}), FALSE)

UnallocatedMemoryIsRP(G, P, o) ==
  UnallocatedMemoryIsRPBody(RunSteps(G, <<"ValidatePageTableMapSize",
                                          "ValidateEfiMemoryMapSize", "PopulateEfiMemoryMap",
                                          "PopulatePageTableMap">>, P, o, NoCalls))

\* IsMemoryAttributeProtocolPresent (Context)
IsMemoryAttributeProtocolPresent(G, P, o) ==
  [G |-> G, Passed |-> P.MemoryAttributeProtocol, Walked |-> TRUE, Calls |-> NoCalls,
   FailedAt |-> "none", Validations |-> <<>>]

\* The loop over the memory space map of MmioIsXp
ValidateMemorySpaceMmio(G) ==
  LET Keep(d) == d.GcdMemoryType = EfiGcdMemoryTypeMemoryMappedIo
      Check(d) == Validation(G.Map, d.BaseAddress, d.Length,
                             {EFI_MEMORY_XP, EFI_MEMORY_RP}, TRUE, TRUE)
      sel == SelectSeq(SubSeq(G.E.mMemorySpaceMap.data, 1, G.E.mMemorySpaceMapCount), Keep)
  IN [i \in 1..Len(sel) |-> Check(sel[i])]

\* MmioIsXp (Context)
MmioIsXpBody(r) ==
  IF ~r.Passed THEN TestStopped(r)
  ELSE TestWalked(r, ValidateMemoryMapType(r.G, EfiMemoryMappedIO,
                                           {EFI_MEMORY_XP, EFI_MEMORY_RP})
                     \o ValidateMemorySpaceMmio(r.G),
                  FALSE)

MmioIsXp(G, P, o) ==
  MmioIsXpBody(RunSteps(G, <<"ValidatePageTableMapSize", "ValidateEfiMemoryMapSize",
                             "PopulateMemorySpaceMap", "PopulateEfiMemoryMap",
                             "PopulatePageTableMap">>, P, o, NoCalls))

-----------------------------------------------------------------------------
(* ImageCodeSectionsRoDataSectionsXp *)

EfiBootServicesCode == "EfiBootServicesCode"
EfiRuntimeServicesCode == "EfiRuntimeServicesCode"

\* Allocation granularity of runtime memory, in bytes
RUNTIME_PAGE_ALLOCATION_GRANULARITY == 16 * EFI_PAGE_SIZE

EFI_IMAGE_SCN_CNT_CODE == "CNT_CODE"
EFI_IMAGE_SCN_CNT_INITIALIZED_DATA == "CNT_INITIALIZED_DATA"
EFI_IMAGE_SCN_CNT_UNINITIALIZED_DATA == "CNT_UNINITIALIZED_DATA"
EFI_IMAGE_SCN_MEM_EXECUTE == "MEM_EXECUTE"
EFI_IMAGE_SCN_MEM_WRITE == "MEM_WRITE"

\* A section header and a loaded image as the test reads them
SectionHeader(VirtualAddress, SizeOfRawData, Characteristics) == [VirtualAddress |-> VirtualAddress, SizeOfRawData |-> SizeOfRawData, Characteristics |-> Characteristics]

LoadedImage(Opened, ImageBase, ImageCodeType, SectionAlignment, Sections) == [Opened |-> Opened, ImageBase |-> ImageBase, ImageCodeType |-> ImageCodeType, SectionAlignment |-> SectionAlignment, Sections |-> Sections]

\* IsLoadedImageSectionAligned (SectionAlignment, MemoryType)
IsLoadedImageSectionAligned(SectionAlignment, MemoryType) ==
  LET PageAlignment == IF MemoryType = EfiRuntimeServicesCode
                         THEN RUNTIME_PAGE_ALLOCATION_GRANULARITY
                         ELSE EFI_PAGE_SIZE
  IN SectionAlignment % PageAlignment = 0

\* ALIGN_VALUE (Value, Alignment): Value rounded up to a multiple of Alignment
ALIGN_VALUE(Value, Alignment) == Value + ((Alignment - (Value % Alignment)) % Alignment)

NoValidation == [Result |-> TRUE, Exit |-> "not asked"]

\* A classification by the content bits: code goes to RO, the rest to XP
SectionFinding_ByContent(Map, img, i, j) ==
  LET sec == img.Sections[j]
      SectionStart == Add64(img.ImageBase, sec.VirtualAddress)
      SectionEnd == Add64(SectionStart, ALIGN_VALUE(sec.SizeOfRawData, img.SectionAlignment))
      Size == Sub64(SectionEnd, SectionStart)
      Finding(kind, asked, v) == [Image |-> i, Section |-> j, Kind |-> kind, Queried |-> asked,
                                  Failed |-> ~v.Result, V |-> v]
  IN IF /\ EFI_IMAGE_SCN_CNT_CODE \in sec.Characteristics
        /\ sec.Characteristics \cap {EFI_IMAGE_SCN_CNT_INITIALIZED_DATA,
                                     EFI_IMAGE_SCN_CNT_UNINITIALIZED_DATA} /= {}
       THEN Finding("code and data", FALSE, [NoValidation EXCEPT !.Result = FALSE])
     ELSE IF EFI_IMAGE_SCN_CNT_CODE \in sec.Characteristics
       THEN Finding("RO", TRUE, Validation(Map, SectionStart, Size, {EFI_MEMORY_RO},
                                           FALSE, FALSE))
       ELSE Finding("XP", TRUE, Validation(Map, SectionStart, Size, {EFI_MEMORY_XP},
                                           FALSE, FALSE))

\* A classification that takes only initialized data for data
SectionFinding_InitializedOnly(Map, img, i, j) ==
  LET sec == img.Sections[j]
      SectionStart == Add64(img.ImageBase, sec.VirtualAddress)
      SectionEnd == Add64(SectionStart, ALIGN_VALUE(sec.SizeOfRawData, img.SectionAlignment))
      Size == Sub64(SectionEnd, SectionStart)
      Finding(kind, asked, v) == [Image |-> i, Section |-> j, Kind |-> kind, Queried |-> asked,
                                  Failed |-> ~v.Result, V |-> v]
  IN IF /\ EFI_IMAGE_SCN_CNT_CODE \in sec.Characteristics
        /\ EFI_IMAGE_SCN_CNT_INITIALIZED_DATA \in sec.Characteristics
       THEN Finding("code and data", FALSE, [NoValidation EXCEPT !.Result = FALSE])
     ELSE IF sec.Characteristics \cap {EFI_IMAGE_SCN_MEM_WRITE, EFI_IMAGE_SCN_MEM_EXECUTE}
               = {EFI_IMAGE_SCN_MEM_EXECUTE}
       THEN Finding("RO", TRUE, Validation(Map, SectionStart, Size, {EFI_MEMORY_RO},
                                           FALSE, FALSE))
       ELSE Finding("XP", TRUE, Validation(Map, SectionStart, Size, {EFI_MEMORY_XP},
                                           FALSE, FALSE))

\* What the test does with section j of image i
SectionFinding(Map, img, i, j) ==
  LET sec == img.Sections[j]
      SectionStart == Add64(img.ImageBase, sec.VirtualAddress)
      SectionEnd == Add64(SectionStart, ALIGN_VALUE(sec.SizeOfRawData, img.SectionAlignment))
      Size == Sub64(SectionEnd, SectionStart)
      Finding(kind, asked, v) == [Image |-> i, Section |-> j, Kind |-> kind, Queried |-> asked,
                                  Failed |-> ~v.Result, V |-> v]
  IN IF /\ EFI_IMAGE_SCN_CNT_CODE \in sec.Characteristics
        /\ sec.Characteristics \cap {EFI_IMAGE_SCN_CNT_INITIALIZED_DATA,
                                     EFI_IMAGE_SCN_CNT_UNINITIALIZED_DATA} /= {}
       THEN Finding("code and data", FALSE, [NoValidation EXCEPT !.Result = FALSE])
     ELSE IF sec.Characteristics \cap {EFI_IMAGE_SCN_MEM_WRITE, EFI_IMAGE_SCN_MEM_EXECUTE}
               = {EFI_IMAGE_SCN_MEM_EXECUTE}
       THEN Finding("RO", TRUE, Validation(Map, SectionStart, Size, {EFI_MEMORY_RO},
                                           FALSE, FALSE))
       ELSE Finding("XP", TRUE, Validation(Map, SectionStart, Size, {EFI_MEMORY_XP},
                                           FALSE, FALSE))

\* A test that validates the sections of an image before it looks at the
\* alignment
ImageFindings_AlignmentLast(Map, img, i) ==
  IF ~img.Opened THEN <<>>
  ELSE [j \in 1..Len(img.Sections) |-> SectionFinding(Map, img, i, j)]
       \o (IF ~IsLoadedImageSectionAligned(img.SectionAlignment, img.ImageCodeType)
             THEN <<[Image |-> i, Section |-> 0, Kind |-> "not aligned", Queried |-> FALSE,
                     Failed |-> TRUE, V |-> [NoValidation EXCEPT !.Result = FALSE]]>>
             ELSE <<>>)

\* What the test does with image i: skipped when its protocol cannot be
\* opened, failed without a look at its sections when it is not aligned
ImageFindings(Map, img, i) ==
  IF ~img.Opened THEN <<>>
  ELSE IF ~IsLoadedImageSectionAligned(img.SectionAlignment, img.ImageCodeType)
    THEN <<[Image |-> i, Section |-> 0, Kind |-> "not aligned", Queried |-> FALSE,
            Failed |-> TRUE, V |-> [NoValidation EXCEPT !.Result = FALSE]]>>
    ELSE [j \in 1..Len(img.Sections) |-> SectionFinding(Map, img, i, j)]

\* for (Index = 0; Index < NoHandles; Index++)
RECURSIVE AllImageFindings(_, _, _)
AllImageFindings(Map, images, i) ==
  IF i > Len(images) THEN <<>>
  ELSE ImageFindings(Map, images[i], i) \o AllImageFindings(Map, images, i + 1)

\* The validations among the findings
RECURSIVE FindingValidations(_)
FindingValidations(fs) ==
  IF fs = <<>> THEN <<>>
  ELSE (IF Head(fs).Queried THEN <<Head(fs).V>> ELSE <<>>) \o FindingValidations(Tail(fs))

\* ImageCodeSectionsRoDataSectionsXp (Context)
ImageTestWalked(r, fs) ==
  TestWalked(r, FindingValidations(fs), \E k \in 1..Len(fs) : fs[k].Failed)
    @@ [Findings |-> fs]

ImageCodeSectionsRoDataSectionsXpBody(r, P) ==
  IF ~r.Passed THEN TestStopped(r) @@ [Findings |-> <<>>]
  ELSE IF ~P.LoadedImages.avail
    THEN TestStopped([r EXCEPT !.FailedAt = "LocateHandleBuffer"]) @@ [Findings |-> <<>>]
  ELSE ImageTestWalked(r, AllImageFindings(r.G.Map, P.LoadedImages.data, 1))

ImageCodeSectionsRoDataSectionsXp(G, P, o) ==
  ImageCodeSectionsRoDataSectionsXpBody(
    RunSteps(G, <<"ValidatePageTableMapSize", "PopulatePageTableMap">>, P, o, NoCalls), P)

-----------------------------------------------------------------------------
(* BspStackIsXpAndHasGuardPage *)

\* A memory allocation HOB: Stack when its name is gEfiHobMemoryAllocStackGuid
MemoryAllocationHob(Stack, MemoryBaseAddress, MemoryLength) == [Stack |-> Stack, MemoryBaseAddress |-> MemoryBaseAddress, MemoryLength |-> MemoryLength]

EFI_PAGES_TO_SIZE(Pages) == Mul64(Pages, EFI_PAGE_SIZE)

\* The two validations made for the first stack HOB; none without one
StackValidations(Map, hobs) ==
  LET stacks == SelectSeq(hobs, LAMBDA h : h.Stack)
      hob == stacks[1]
      StackBase == (hob.MemoryBaseAddress \div EFI_PAGE_SIZE) * EFI_PAGE_SIZE
      StackLength == EFI_PAGES_TO_SIZE(EFI_SIZE_TO_PAGES(hob.MemoryLength))
  IN IF stacks = <<>> THEN <<>>
     ELSE <<Validation(Map, StackBase, EFI_PAGE_SIZE, {EFI_MEMORY_RP}, TRUE, TRUE),
            Validation(Map, Add64(StackBase, EFI_PAGE_SIZE), Sub64(StackLength, EFI_PAGE_SIZE),
                       {EFI_MEMORY_XP}, TRUE, FALSE)>>

\* BspStackIsXpAndHasGuardPage (Context)
BspStackIsXpAndHasGuardPageBody(r, P) ==
  IF ~r.Passed THEN TestStopped(r)
  ELSE TestWalked(r, StackValidations(r.G.Map, P.Hobs), FALSE)

BspStackIsXpAndHasGuardPage(G, P, o) ==
  BspStackIsXpAndHasGuardPageBody(
    RunSteps(G, <<"ValidatePageTableMapSize", "PopulatePageTableMap">>, P, o, NoCalls), P)

-----------------------------------------------------------------------------
(* MemoryOutsideEfiMemoryMapIsInaccessible *)

DescriptorEnd(d) == Add64(d.PhysicalStart, Mul64(d.NumberOfPages, EFI_PAGE_SIZE))

\* while (CurrentEfiMemoryMapEntry < EndOfEfiMemoryMap): the gap before entry i
\* is validated when the entry starts above the end of the entry before it
RECURSIVE GapWalk(_, _, _, _, _)
GapWalk(Map, entries, i, LastMemoryMapEntryEnd, vs) ==
  IF i > Len(entries) THEN [LastMemoryMapEntryEnd |-> LastMemoryMapEntryEnd, vs |-> vs]
  ELSE GapWalk(Map, entries, i + 1, DescriptorEnd(entries[i]),
               IF entries[i].PhysicalStart > LastMemoryMapEntryEnd
                 THEN Append(vs, Validation(Map, LastMemoryMapEntryEnd,
                                            entries[i].PhysicalStart - LastMemoryMapEntryEnd,
                                            {EFI_MEMORY_RP}, TRUE, TRUE))
                 ELSE vs)

\* The validation before the first entry, when it starts above the address space
OutsideBefore(Map, first, StartOfAddressSpace) ==
  IF first.PhysicalStart > StartOfAddressSpace
    THEN <<Validation(Map, StartOfAddressSpace, first.PhysicalStart - StartOfAddressSpace,
                      {EFI_MEMORY_RP}, TRUE, TRUE)>>
    ELSE <<>>

\* The validation after the last entry, when it ends below the address space
OutsideAfter(Map, w, EndOfAddressSpace) ==
  IF w.LastMemoryMapEntryEnd < EndOfAddressSpace
    THEN Append(w.vs, Validation(Map, w.LastMemoryMapEntryEnd,
                                 EndOfAddressSpace - w.LastMemoryMapEntryEnd,
                                 {EFI_MEMORY_RP}, TRUE, TRUE))
    ELSE w.vs

\* The validations of the test: before the first entry, between entries, after
\* the last entry
OutsideWalk(Map, msm, Count, entries) ==
  OutsideAfter(Map,
               GapWalk(Map, entries, 2, DescriptorEnd(entries[1]),
                       OutsideBefore(Map, entries[1], msm[1].BaseAddress)),
               Add64(msm[Count].BaseAddress, msm[Count].Length))

OutsideValidations(G) ==
  OutsideWalk(G.Map, G.E.mMemorySpaceMap.data, G.E.mMemorySpaceMapCount,
              EfiMemoryMapEntries(G.M))

\* MemoryOutsideEfiMemoryMapIsInaccessible (Context)
MemoryOutsideEfiMemoryMapIsInaccessibleBody(r) ==
  IF ~r.Passed THEN TestStopped(r)
  ELSE TestWalked(r, OutsideValidations(r.G), FALSE)

MemoryOutsideEfiMemoryMapIsInaccessible(G, P, o) ==
  MemoryOutsideEfiMemoryMapIsInaccessibleBody(
    RunSteps(G, <<"ValidatePageTableMapSize", "ValidateEfiMemoryMapSize",
                  "PopulateMemorySpaceMap", "PopulateEfiMemoryMap",
                  "PopulatePageTableMap">>, P, o, NoCalls))

-----------------------------------------------------------------------------
(* The run of the test suite (entry point, lines 1533-1558) *)

\* NoReadWriteExecute and NullPageIsRp over all globals
NoReadWriteExecuteWalked(r, Offenders) ==
  TestWalked(r, <<>>, Offenders /= <<>>) @@ [Offenders |-> Offenders]

NoReadWriteExecuteBody(r) ==
  IF ~r.Passed THEN TestStopped(r) @@ [Offenders |-> <<>>]
  ELSE NoReadWriteExecuteWalked(r, RwxWalk(r.G.E, r.G.Map, 1, <<>>))

NoReadWriteExecuteTest(G, P, o) ==
  NoReadWriteExecuteBody(RunSteps(G, <<"PopulateSpecialRegions",
                                       "PopulateNonProtectedImageList",
                                       "ValidatePageTableMapSize", "PopulateMemorySpaceMap",
                                       "PopulatePageTableMap">>, P, o, NoCalls))

NullPageIsRpBody(r) ==
  IF ~r.Passed THEN TestStopped(r)
  ELSE TestWalked(r, <<Validation(r.G.Map, 0, EFI_PAGE_SIZE, {EFI_MEMORY_RP}, TRUE, TRUE)>>,
                  FALSE)

NullPageIsRpTest(G, P, o) ==
  NullPageIsRpBody(RunSteps(G, <<"ValidatePageTableMapSize", "PopulatePageTableMap">>,
                            P, o, NoCalls))

\* The test cases in the order AddTestCase registers them, and which of them
\* have GeneralTestCleanup as their cleanup
TestCases ==
  <<"NoReadWriteExecute", "UnallocatedMemoryIsRP", "IsMemoryAttributeProtocolPresent",
    "NullPageIsRp", "MmioIsXp", "ImageCodeSectionsRoDataSectionsXp",
    "BspStackIsXpAndHasGuardPage", "MemoryOutsideEfiMemoryMapIsInaccessible">>

HasCleanup(name) == name /= "IsMemoryAttributeProtocolPresent"

RunTestCase(name, G, P, o) ==
  CASE name = "NoReadWriteExecute" -> NoReadWriteExecuteTest(G, P, o)
    [] name = "UnallocatedMemoryIsRP" -> UnallocatedMemoryIsRP(G, P, o)
    [] name = "IsMemoryAttributeProtocolPresent" -> IsMemoryAttributeProtocolPresent(G, P, o)
    [] name = "NullPageIsRp" -> NullPageIsRpTest(G, P, o)
    [] name = "MmioIsXp" -> MmioIsXp(G, P, o)
    [] name = "ImageCodeSectionsRoDataSectionsXp" -> ImageCodeSectionsRoDataSectionsXp(G, P, o)
    [] name = "BspStackIsXpAndHasGuardPage" -> BspStackIsXpAndHasGuardPage(G, P, o)
    [] name = "MemoryOutsideEfiMemoryMapIsInaccessible" ->
         MemoryOutsideEfiMemoryMapIsInaccessible(G, P, o)

\* What a test leaves in last
TestRecord(name, r) == [op |-> name] @@ [f \in DOMAIN r \ {"G"} |-> r[f]]

NextTestCase(k) ==
  IF k < Len(TestCases) THEN [test |-> k + 1, phase |-> "test"]
  ELSE [test |-> 0, phase |-> "exit"]

\* RunAllTestSuites (Fw) starts with the first test case
RunAllTestSuites ==
  /\ pc = NotRunning
  /\ pc' = [test |-> 1, phase |-> "test"]
  /\ last' = [op |-> "RunAllTestSuites"]
  /\ UNCHANGED <<mMap, exemptionVars, efiVars, platform, args, calls>>

\* The framework runs the test case pc.test
\* In a run, all the calls of a test succeed or one kind of call fails
RunOutcomes ==
  {AllSucceed} \cup {[AllSucceed EXCEPT ![f] = FALSE] : f \in DOMAIN AllSucceed}

\* The test case returned r: its record is kept, its cleanup comes next
TestCaseReturns(name, r) ==
  /\ SetGlobals(r.G)
  /\ calls' = AddCalls(calls, r.Calls)
  /\ last' = TestRecord(name, r)
  /\ pc' = IF HasCleanup(name) THEN [pc EXCEPT !.phase = "cleanup"]
           ELSE NextTestCase(pc.test)

TestCaseRuns ==
  /\ pc.phase = "test"
  /\ \E o \in RunOutcomes :
       TestCaseReturns(TestCases[pc.test],
                       RunTestCase(TestCases[pc.test], CurrentGlobals, platform, o))
  /\ UNCHANGED <<platform, args>>

\* The framework runs the cleanup of the test case pc.test
TestCaseCleanup ==
  /\ pc.phase = "cleanup"
  /\ SetExemptions(GeneralTestCleanup(CurrentExemptions))
  /\ pc' = NextTestCase(pc.test)
  /\ last' = [op |-> "GeneralTestCleanup"]
  /\ UNCHANGED <<mMap, efiVars, platform, args, calls>>

\* EXIT: the page table map and the EFI memory map are released
EntryPointExit ==
  /\ pc.phase = "exit"
  /\ mMap' = IF mMap.Entries.alloc THEN FreePageTableMap(mMap) ELSE mMap
  /\ SetEfiMap(IF mEfiMemoryMap.alloc THEN FreeEfiMemoryMap(CurrentEfiMap) ELSE CurrentEfiMap)
  /\ pc' = [test |-> 0, phase |-> "done"]
  /\ last' = [op |-> "EXIT"]
  /\ UNCHANGED <<exemptionVars, platform, args, calls>>

\* Platforms of the run: two page tables over the first three pages, each
\* producer of a memory inventory present or absent
RunPageTables ==
  {<<MapEntry(0, EFI_PAGE_SIZE, {EFI_MEMORY_RP}), MapEntry(EFI_PAGE_SIZE, EFI_PAGE_SIZE, {}),
     MapEntry(2 * EFI_PAGE_SIZE, EFI_PAGE_SIZE, {EFI_MEMORY_XP})>>,
   <<MapEntry(EFI_PAGE_SIZE, 2 * EFI_PAGE_SIZE, {EFI_MEMORY_RO, EFI_MEMORY_XP})>>}

RunGcdMaps ==
  {<<GcdDescriptor(2 * EFI_PAGE_SIZE, 2 * EFI_PAGE_SIZE, EfiGcdMemoryTypeMemoryMappedIo),
     GcdDescriptor(0, 2 * EFI_PAGE_SIZE, EfiGcdMemoryTypeSystemMemory)>>}

RunEfiMemoryMaps ==
  {<<EFI_MEMORY_DESCRIPTOR(EfiConventionalMemory, 2 * EFI_PAGE_SIZE, 1),
     EFI_MEMORY_DESCRIPTOR(EfiBootServicesData, 0, 1)>>}

RunImages ==
  {<<LoadedImage(TRUE, EFI_PAGE_SIZE, EfiBootServicesCode, EFI_PAGE_SIZE,
                 <<SectionHeader(0, EFI_PAGE_SIZE, {EFI_IMAGE_SCN_CNT_CODE,
                                                    EFI_IMAGE_SCN_MEM_EXECUTE})>>)>>}

RunHobs ==
  {<<MemoryAllocationHob(FALSE, 0, EFI_PAGE_SIZE),
     MemoryAllocationHob(TRUE, 0, 3 * EFI_PAGE_SIZE)>>}

RunPlatforms ==
  [PageTable : RunPageTables, Window : {0},
   SpecialRegions : {Unavailable, Available(<<SpecialRegion(EFI_PAGE_SIZE, EFI_PAGE_SIZE, {})>>)},
   NonProtectedImages : {Unavailable, Available(<<>>)},
   MemorySpaceMap : Producers(RunGcdMaps),
   EfiMemoryMap : Producers(RunEfiMemoryMaps),
   MemoryAttributeProtocol : BOOLEAN,
   LoadedImages : {Available(l) : l \in RunImages},
   Hobs : RunHobs]

InitRun ==
  /\ InitGlobals
  /\ platform \in RunPlatforms

NextRun ==
  \/ RunAllTestSuites
  \/ TestCaseRuns
  \/ TestCaseCleanup
  \/ EntryPointExit

SpecRun == InitRun /\ [][NextRun]_vars

-----------------------------------------------------------------------------
(* Calls of ImageCodeSectionsRoDataSectionsXp *)

\* A test called on its own returned r
TestReturns(name, r) ==
  /\ SetGlobals(r.G)
  /\ last' = TestRecord(name, r)
  /\ UNCHANGED <<platform, args, runVars>>

ImageCodeSectionsRoDataSectionsXpCall ==
  \E o \in Outcomes :
    TestReturns("ImageCodeSectionsRoDataSectionsXp", ImageCodeSectionsRoDataSectionsXp(CurrentGlobals, platform, o))

\* Characteristics of the first and of the second section of the image
FirstCharacteristics ==
  {{EFI_IMAGE_SCN_CNT_CODE, EFI_IMAGE_SCN_MEM_EXECUTE},
   {EFI_IMAGE_SCN_CNT_CODE, EFI_IMAGE_SCN_MEM_EXECUTE, EFI_IMAGE_SCN_MEM_WRITE},
   {EFI_IMAGE_SCN_CNT_CODE},
   {EFI_IMAGE_SCN_CNT_CODE, EFI_IMAGE_SCN_CNT_INITIALIZED_DATA, EFI_IMAGE_SCN_MEM_EXECUTE},
   {EFI_IMAGE_SCN_CNT_CODE, EFI_IMAGE_SCN_CNT_UNINITIALIZED_DATA},
   {EFI_IMAGE_SCN_CNT_INITIALIZED_DATA, EFI_IMAGE_SCN_MEM_WRITE},
   {EFI_IMAGE_SCN_MEM_EXECUTE}}

SecondCharacteristics ==
  {{EFI_IMAGE_SCN_CNT_CODE, EFI_IMAGE_SCN_MEM_EXECUTE},
   {EFI_IMAGE_SCN_CNT_INITIALIZED_DATA, EFI_IMAGE_SCN_MEM_WRITE},
   {EFI_IMAGE_SCN_CNT_CODE, EFI_IMAGE_SCN_CNT_INITIALIZED_DATA}}

\* One image at 0x1000 with a section of a page and a section of half a page
ImageLayout(opened, align, c1, c2) ==
  <<LoadedImage(opened, EFI_PAGE_SIZE, EfiBootServicesCode, align,
                <<SectionHeader(0, EFI_PAGE_SIZE, c1),
                  SectionHeader(EFI_PAGE_SIZE, EFI_PAGE_SIZE \div 2, c2)>>)>>

\* Two images: the one at 0x1000 with a code and a data section, and one of a
\* single code section at 0x3000
ImagePair(type1, align1, type2, align2) ==
  <<LoadedImage(TRUE, EFI_PAGE_SIZE, type1, align1,
                <<SectionHeader(0, EFI_PAGE_SIZE,
                                {EFI_IMAGE_SCN_CNT_CODE, EFI_IMAGE_SCN_MEM_EXECUTE}),
                  SectionHeader(EFI_PAGE_SIZE, EFI_PAGE_SIZE \div 2,
                                {EFI_IMAGE_SCN_CNT_INITIALIZED_DATA, EFI_IMAGE_SCN_MEM_WRITE})>>),
    LoadedImage(TRUE, 3 * EFI_PAGE_SIZE, type2, align2,
                <<SectionHeader(0, EFI_PAGE_SIZE,
                                {EFI_IMAGE_SCN_CNT_CODE, EFI_IMAGE_SCN_MEM_EXECUTE})>>)>>

\* The image opened and aligned with every pair of characteristics, one
\* image that cannot be opened and one that is not aligned, and the pairs of
\* boot and runtime images aligned to a page or to half a page
ImageLayouts ==
  {ImageLayout(TRUE, EFI_PAGE_SIZE, c1, c2) :
     c1 \in FirstCharacteristics, c2 \in SecondCharacteristics}
  \cup {ImageLayout(opened, align, {EFI_IMAGE_SCN_CNT_CODE, EFI_IMAGE_SCN_MEM_EXECUTE},
                     {EFI_IMAGE_SCN_CNT_CODE, EFI_IMAGE_SCN_CNT_INITIALIZED_DATA}) :
          opened \in BOOLEAN, align \in {EFI_PAGE_SIZE, EFI_PAGE_SIZE \div 2}}
  \cup {ImagePair(type1, align1, type2, align2) :
          type1 \in {EfiBootServicesCode, EfiRuntimeServicesCode},
          align1 \in {EFI_PAGE_SIZE, EFI_PAGE_SIZE \div 2},
          type2 \in {EfiBootServicesCode, EfiRuntimeServicesCode},
          align2 \in {EFI_PAGE_SIZE, EFI_PAGE_SIZE \div 2}}

\* How the two pages of the image are mapped
ImagePageChoices == {<<>>, <<{}>>, <<{EFI_MEMORY_RO}>>, <<{EFI_MEMORY_XP}>>}

ImageTables ==
  {Merged(WindowTable(EFI_PAGE_SIZE, c0, c1, <<>>)) :
     c0 \in ImagePageChoices, c1 \in ImagePageChoices} \ {<<>>}

InitImage ==
  /\ InitGlobals
  /\ platform \in [PageTable : ImageTables, Window : {EFI_PAGE_SIZE},
                    LoadedImages : Producers(ImageLayouts)]

NextImage ==
  \/ ImageCodeSectionsRoDataSectionsXpCall
  \/ FreePageTableMapCall

SpecImage == InitImage /\ [][NextImage]_vars

-----------------------------------------------------------------------------
(* Calls of BspStackIsXpAndHasGuardPage *)

BspStackIsXpAndHasGuardPageCall ==
  \E o \in Outcomes :
    TestReturns("BspStackIsXpAndHasGuardPage", BspStackIsXpAndHasGuardPage(CurrentGlobals, platform, o))

\* HOB lists: none, no stack HOB, a stack of three pages, of two pages above
\* the bottom page, of one page, of a length that is not a multiple of the page
\* size, and two stack HOBs after another allocation
StackHobLists ==
  {<<>>,
   <<MemoryAllocationHob(FALSE, 0, EFI_PAGE_SIZE)>>,
   <<MemoryAllocationHob(TRUE, 0, 3 * EFI_PAGE_SIZE)>>,
   <<MemoryAllocationHob(TRUE, EFI_PAGE_SIZE, 2 * EFI_PAGE_SIZE)>>,
   <<MemoryAllocationHob(TRUE, 0, EFI_PAGE_SIZE)>>,
   <<MemoryAllocationHob(TRUE, 0, 2 * EFI_PAGE_SIZE + 1)>>,
   <<MemoryAllocationHob(FALSE, 0, EFI_PAGE_SIZE),
     MemoryAllocationHob(TRUE, EFI_PAGE_SIZE, 2 * EFI_PAGE_SIZE),
     MemoryAllocationHob(TRUE, 0, 3 * EFI_PAGE_SIZE)>>}

InitStack ==
  /\ InitGlobals
  /\ platform \in [PageTable : WindowTables(0), Window : {0}, Hobs : StackHobLists]

NextStack ==
  \/ BspStackIsXpAndHasGuardPageCall
  \/ FreePageTableMapCall

SpecStack == InitStack /\ [][NextStack]_vars

-----------------------------------------------------------------------------
(* Calls of MemoryOutsideEfiMemoryMapIsInaccessible *)

MemoryOutsideEfiMemoryMapIsInaccessibleCall ==
  \E o \in Outcomes :
    TestReturns("MemoryOutsideEfiMemoryMapIsInaccessible", MemoryOutsideEfiMemoryMapIsInaccessible(CurrentGlobals, platform, o))

\* Address spaces of three pages, of two pages above the bottom page, and of
\* three pages in two descriptors the firmware reports out of order
OutsideGcdMaps ==
  {<<GcdDescriptor(0, 3 * EFI_PAGE_SIZE, EfiGcdMemoryTypeSystemMemory)>>,
   <<GcdDescriptor(EFI_PAGE_SIZE, 2 * EFI_PAGE_SIZE, EfiGcdMemoryTypeSystemMemory)>>,
   <<GcdDescriptor(2 * EFI_PAGE_SIZE, EFI_PAGE_SIZE, EfiGcdMemoryTypeMemoryMappedIo),
     GcdDescriptor(0, 2 * EFI_PAGE_SIZE, EfiGcdMemoryTypeSystemMemory)>>}

\* Memory maps: the middle page, the two outer pages (in either order), the
\* bottom page, all three pages
OutsideEfiMemoryMaps ==
  {<<EFI_MEMORY_DESCRIPTOR(EfiBootServicesData, EFI_PAGE_SIZE, 1)>>,
   <<EFI_MEMORY_DESCRIPTOR(EfiConventionalMemory, 0, 1),
     EFI_MEMORY_DESCRIPTOR(EfiBootServicesData, 2 * EFI_PAGE_SIZE, 1)>>,
   <<EFI_MEMORY_DESCRIPTOR(EfiBootServicesData, 2 * EFI_PAGE_SIZE, 1),
     EFI_MEMORY_DESCRIPTOR(EfiConventionalMemory, 0, 1)>>,
   <<EFI_MEMORY_DESCRIPTOR(EfiConventionalMemory, 0, 1)>>,
   <<EFI_MEMORY_DESCRIPTOR(EfiBootServicesData, 0, 3)>>}

\* Each of the three pages unmapped, accessible or restricted
OutsidePageChoices == {<<>>, <<{}>>, <<{EFI_MEMORY_RP}>>}

OutsideTables ==
  {Merged(WindowTable(0, c0, c1, c2)) :
     c0 \in OutsidePageChoices, c1 \in OutsidePageChoices, c2 \in OutsidePageChoices} \ {<<>>}

InitOutside ==
  /\ InitGlobals
  /\ platform \in [PageTable : OutsideTables, Window : {0},
                   MemorySpaceMap : {Available(l) : l \in OutsideGcdMaps},
                   EfiMemoryMap : {Available(l) : l \in OutsideEfiMemoryMaps}]

NextOutside ==
  \/ MemoryOutsideEfiMemoryMapIsInaccessibleCall
  \/ FreePageTableMapCall

SpecOutside == InitOutside /\ [][NextOutside]_vars

-----------------------------------------------------------------------------
(* Calls of UnallocatedMemoryIsRP *)

UnallocatedMemoryIsRPCall ==
  \E o \in Outcomes :
    TestReturns("UnallocatedMemoryIsRP", UnallocatedMemoryIsRP(CurrentGlobals, platform, o))

\* Memory maps with no free page, one, and two (the firmware reports them in
\* either order around a page in use)
UnallocatedEfiMemoryMaps ==
  {<<EFI_MEMORY_DESCRIPTOR(EfiBootServicesData, 0, 3)>>,
   <<EFI_MEMORY_DESCRIPTOR(EfiConventionalMemory, EFI_PAGE_SIZE, 1)>>,
   <<EFI_MEMORY_DESCRIPTOR(EfiConventionalMemory, 0, 1),
     EFI_MEMORY_DESCRIPTOR(EfiBootServicesData, EFI_PAGE_SIZE, 1),
     EFI_MEMORY_DESCRIPTOR(EfiConventionalMemory, 2 * EFI_PAGE_SIZE, 1)>>,
   <<EFI_MEMORY_DESCRIPTOR(EfiConventionalMemory, EFI_PAGE_SIZE, 2),
     EFI_MEMORY_DESCRIPTOR(EfiConventionalMemory, 0, 1)>>}

InitUnallocated ==
  /\ InitGlobals
  /\ platform \in [PageTable : WindowTables(0) \cup MalformedTables(0), Window : {0},
                   EfiMemoryMap : {Available(l) : l \in UnallocatedEfiMemoryMaps}]

NextUnallocated ==
  \/ UnallocatedMemoryIsRPCall
  \/ FreePageTableMapCall

SpecUnallocated == InitUnallocated /\ [][NextUnallocated]_vars

-----------------------------------------------------------------------------
(* Properties of the page table map calls (SpecMap) *)

Succeeded(status) == status = "EFI_SUCCESS"

\* The capacity, in entries, that mMap recorded before the last call
CapacityBefore == Capacity(last.Before)

\* C8: ValidatePageTableMapSize is a no-op whenever the existing allocation
\* already holds the entry count the producer reports, the case of the required
\* size equalling the current allocation included: nothing is freed or
\* reallocated, and entries, entry count and allocated pages are unchanged.
C8_EnsureCapacityIdempotent ==
  (/\ last.op = "ValidatePageTableMapSize"
   /\ last.Status /= "EFI_ABORTED"
   /\ last.Before.Entries.alloc
   /\ EFI_SIZE_TO_PAGES(last.Required * SizeofPageMapEntry) <= last.Before.EntryPagesAllocated)
  => (~last.Realloc /\ mMap = last.Before)

\* C8, the part the code keeps: with strictly fewer pages required than
\* allocated the call changes nothing.
C8_NoOpWhenStrictlyLarger ==
  (/\ last.op = "ValidatePageTableMapSize"
   /\ last.Status /= "EFI_ABORTED"
   /\ EFI_SIZE_TO_PAGES(last.Required * SizeofPageMapEntry) < last.Before.EntryPagesAllocated)
  => (~last.Realloc /\ mMap = last.Before /\ Succeeded(last.Status))

\* C9: when the probe reports more entries than the current capacity, a
\* successful ValidatePageTableMapSize has reallocated room for at least
\* n + n/5 entries, and the PopulatePageTableMap that follows it, the producer
\* still requiring n entries, gets no second EFI_BUFFER_TOO_SMALL and succeeds.
C9_GrowthProtocol ==
  (/\ last.op = "PagingTestPrologue"
   /\ Succeeded(last.Validate)
   /\ last.Required > CapacityBefore)
  => /\ last.Realloc
     /\ last.Sized.Entries.alloc
     /\ Capacity(last.Sized) >= last.Required + (last.Required \div 5)
     /\ last.Sized.EntryCount = last.Required + (last.Required \div 5)
     /\ last.Populate /= "EFI_BUFFER_TOO_SMALL"
     /\ (last.ProducerOk => /\ Succeeded(last.Populate)
                            /\ mMap.EntryCount = last.Required
                            /\ mMap.Entries = Buffer(platform.PageTable))

\* 1000 entries required on a table sized for 500: room for 1200, then a fill
C9_Witness ==
  /\ last.op = "PagingTestPrologue"
  /\ last.Required = 1000
  /\ last.Before.Entries.alloc
  /\ last.Before.EntryPagesAllocated = EFI_SIZE_TO_PAGES(600 * SizeofPageMapEntry)
  /\ Capacity(last.Sized) >= 1200
  /\ Succeeded(last.Populate)
  /\ mMap.EntryCount = 1000

\* C10: PopulatePageTableMap called with no buffer or a zero entry count
\* returns an error, does not call the producer and leaves mMap as it was.
C10_PopulateNeedsAllocation ==
  (/\ last.op = "PopulatePageTableMap"
   /\ (~last.Before.Entries.alloc \/ last.Before.EntryCount = 0))
  => /\ last.Status = "EFI_INVALID_PARAMETER"
     /\ ~last.Called
     /\ mMap = last.Before

\* Populate right after a release, the producer ready to answer
C10_Witness ==
  /\ last.op = "PopulatePageTableMap"
  /\ last.Before = EmptyMap
  /\ last.Status = "EFI_INVALID_PARAMETER"
  /\ mMap = EmptyMap

\* Populate on what a failed allocation left: a count but no buffer
C10_WitnessStale ==
  /\ last.op = "PopulatePageTableMap"
  /\ ~last.Before.Entries.alloc
  /\ last.Before.EntryCount > 0
  /\ ~last.Called

-----------------------------------------------------------------------------
(* Properties of CanRegionBeRWX (SpecRwx) *)

\* Interval [e0, e0+elen) contains interval [q0, q0+qlen), over the integers
Subsumes(e0, elen, q0, qlen) == e0 <= q0 /\ e0 + elen >= q0 + qlen

\* The entries of the populated exemption sources that count as exemptions
SpecialRegionEntries ==
  IF mSpecialRegions.alloc
    THEN {[base |-> mSpecialRegions.data[i].Start, len |-> mSpecialRegions.data[i].Length] :
            i \in {j \in 1..mSpecialRegionCount : mSpecialRegions.data[j].EfiAttributes = {}}}
    ELSE {}

NonProtectedImageEntries ==
  IF mNonProtectedImageList.alloc
    THEN {[base |-> mNonProtectedImageList.data[i].Base,
           len |-> mNonProtectedImageList.data[i].Length] :
            i \in 1..Len(mNonProtectedImageList.data)}
    ELSE {}

NonExistentEntries ==
  IF mMemorySpaceMap.alloc
    THEN {[base |-> mMemorySpaceMap.data[i].BaseAddress,
           len |-> mMemorySpaceMap.data[i].Length] :
            i \in {j \in 1..mMemorySpaceMapCount :
                     mMemorySpaceMap.data[j].GcdMemoryType = EfiGcdMemoryTypeNonExistent}}
    ELSE {}

ExemptionEntries == SpecialRegionEntries \cup NonProtectedImageEntries \cup NonExistentEntries

QuerySubsumedBy(entries) ==
  \E e \in entries : Subsumes(e.base, e.len, last.Address, last.Length)

\* C1: CanRegionBeRWX answers TRUE whenever any one of the three sources holds
\* an entry that subsumes the range: a special region with no attributes, a
\* non-protected image, or a non-existent memory space descriptor, the last
\* also when special regions and image list are both unpopulated.
C1_AnySourceExempts ==
  (last.op = "CanRegionBeRWX" /\ QuerySubsumedBy(ExemptionEntries)) => last.Result

\* C2: CanRegionBeRWX answers TRUE exactly when some exemption entry [e0,e1)
\* has e0 <= q0 and e1 >= q1; an entry that overlaps the query without
\* containing it, no other entry containing it, gives FALSE.
C2_StrictSubsumption ==
  last.op = "CanRegionBeRWX" => (last.Result <=> QuerySubsumedBy(ExemptionEntries))

\* C3: with special regions, non-protected image list and memory space map all
\* unpopulated, CanRegionBeRWX answers FALSE for every address and length.
C3_FailClosed ==
  (/\ last.op = "CanRegionBeRWX"
   /\ ~mSpecialRegions.alloc
   /\ ~mNonProtectedImageList.alloc
   /\ ~mMemorySpaceMap.alloc)
  => ~last.Result

\* A query made with nothing populated, on a platform whose producers had
\* exemptions to give
C3_Witness ==
  /\ last.op = "CanRegionBeRWX"
  /\ ~mSpecialRegions.alloc /\ ~mNonProtectedImageList.alloc /\ ~mMemorySpaceMap.alloc
  /\ platform.SpecialRegions.avail /\ platform.MemorySpaceMap.avail
  /\ ~last.Result

-----------------------------------------------------------------------------
(* Properties of ValidateRegionAttributes (SpecValidate) *)

Validated == last.op = "ValidateRegionAttributes"

TableEntries == mMap.Entries.data

\* The entries of the table that contain address a
Covering(a) ==
  {i \in 1..Len(TableEntries) :
     TableEntries[i].LinearAddress <= a /\ a < EntryEnd(TableEntries[i])}

\* The page addresses of the requested range
RequestPages ==
  {args.Address + k * EFI_PAGE_SIZE : k \in 0..((args.Length \div EFI_PAGE_SIZE) - 1)}

\* Every page of the requested range lies in an entry of a well-formed table
FullyMapped ==
  /\ WellFormed(TableEntries)
  /\ \A a \in RequestPages : Covering(a) /= {}

\* The required attributes are met by the observed ones, bit by bit
RequirementMet(observed) ==
  IF args.MatchAnyAttribute
    THEN \E b \in args.RequiredAttributes : b \in observed
    ELSE \A b \in args.RequiredAttributes : b \in observed

\* A classified sub-range the loop records as a failure
SegmentFailed(seg) ==
  \/ seg.Mismatch
  \/ seg.CheckedLength = 0
  \/ (seg.Status = "EFI_NO_MAPPING" /\ ~args.AllowUnmappedRegions)
  \/ seg.Status \notin {"EFI_SUCCESS", "EFI_NOT_FOUND", "EFI_NO_MAPPING"}

RECURSIVE SumChecked(_)
SumChecked(segs) ==
  IF segs = <<>> THEN 0 ELSE Head(segs).CheckedLength + SumChecked(Tail(segs))

NoSegmentFailed ==
  \A i \in 1..Len(last.Result.Segments) : ~SegmentFailed(last.Result.Segments[i])

Consumed == SumChecked(last.Result.Segments) = args.Length

\* The request does not reach past the top of the address space
ProperRequest == args.Address + args.Length <= Modulus

\* C4: ValidateRegionAttributes returns TRUE iff no sub-range failed and the
\* whole requested length was consumed; TRUE is never returned with part of
\* the requested length unexamined.
C4_TrueIffAllConsumed ==
  Validated => (last.Result.AttributesMatch <=> (NoSegmentFailed /\ Consumed))

\* C4 as amended: for a request that ends at or below the top of the address
\* space, the verdict is TRUE iff no sub-range failed and the whole length was
\* consumed; a mismatch does not stop the scan, so a non-empty fully mapped
\* range is examined to its end and passes iff every page of it meets the
\* requirement.
C4_AuditsWholeRange ==
  (Validated /\ ProperRequest) =>
    /\ last.Result.AttributesMatch <=> (NoSegmentFailed /\ Consumed)
    /\ (FullyMapped /\ args.Length > 0) =>
         /\ Consumed
         /\ last.Result.AttributesMatch <=>
              \A a \in RequestPages :
                \A i \in Covering(a) : RequirementMet(TableEntries[i].Attr)

\* A first sub-range that passes, a second that mismatches, a third still examined
C4_Witness ==
  /\ Validated /\ ProperRequest /\ FullyMapped
  /\ Len(last.Result.Segments) = 3
  /\ ~last.Result.Segments[1].Mismatch
  /\ last.Result.Segments[2].Mismatch
  /\ ~last.Result.Segments[3].Mismatch
  /\ Consumed
  /\ ~last.Result.AttributesMatch

\* C5: a mapped sub-range passes, under MatchAnyAttribute, iff at least one
\* required bit is among the observed attributes and otherwise iff all required
\* bits are; observed bits that were not required never fail it. For every
\* set of required bits over RP, RO, XP.
C5_MatchAnyMatchAll ==
  Validated =>
    /\ \A i \in 1..Len(last.Result.Segments) :
         LET seg == last.Result.Segments[i]
         IN seg.Status \in {"EFI_SUCCESS", "EFI_NOT_FOUND"} =>
              /\ seg.Mismatch <=> ~RequirementMet(seg.Attributes)
              /\ \A j \in Covering(seg.Address) : seg.Attributes = TableEntries[j].Attr
    /\ (ProperRequest /\ FullyMapped /\ args.Length > 0 /\ Len(last.Result.Segments) = 1) =>
         (last.Result.AttributesMatch <=>
            \A j \in Covering(args.Address) : RequirementMet(TableEntries[j].Attr))

\* Match-any on RP|XP over a range mapped RO|XP: one required bit present, one
\* extra bit observed, and the range passes
C5_Witness ==
  /\ Validated /\ ProperRequest
  /\ args.MatchAnyAttribute
  /\ args.RequiredAttributes = {EFI_MEMORY_RP, EFI_MEMORY_XP}
  /\ args.Length > 0
  /\ Len(last.Result.Segments) = 1
  /\ last.Result.Segments[1].Attributes = {EFI_MEMORY_RO, EFI_MEMORY_XP}
  /\ last.Result.AttributesMatch

\* Match-all on RO over a range mapped RO|XP passes
C5_WitnessAll ==
  /\ Validated /\ ProperRequest
  /\ ~args.MatchAnyAttribute
  /\ args.RequiredAttributes = {EFI_MEMORY_RO}
  /\ args.Length > 0
  /\ Len(last.Result.Segments) = 1
  /\ last.Result.Segments[1].Attributes = {EFI_MEMORY_RO, EFI_MEMORY_XP}
  /\ last.Result.AttributesMatch

-----------------------------------------------------------------------------
(* Properties of NullPageIsRp (SpecNullPage) *)

\* C7: the null page test passes when the entry covering address 0 carries RP,
\* passes when no entry covers address 0, and fails when the covering entry
\* carries no attribute.
C7_NullPage ==
  (last.op = "NullPageIsRp" /\ last.Walked /\ WellFormed(TableEntries)) =>
    /\ (\E i \in Covering(0) : EFI_MEMORY_RP \in TableEntries[i].Attr) => last.Passed
    /\ Covering(0) = {} => last.Passed
    /\ (\E i \in Covering(0) : TableEntries[i].Attr = {}) => ~last.Passed

\* C7 without the unmapped case: RP passes, no attribute fails
C7_NullPageMapped ==
  (last.op = "NullPageIsRp" /\ last.Walked /\ WellFormed(TableEntries)) =>
    /\ (\E i \in Covering(0) : EFI_MEMORY_RP \in TableEntries[i].Attr) => last.Passed
    /\ (\E i \in Covering(0) : TableEntries[i].Attr = {}) => ~last.Passed

-----------------------------------------------------------------------------
(* Properties of NoReadWriteExecute (SpecNoRwx) *)

RwxWalked == last.op = "NoReadWriteExecute" /\ last.Walked

\* Entries of the table that grant read, write and execute together
RwxEntries == {i \in 1..Len(TableEntries) : TableEntries[i].Attr \cap AttrBits = {}}

\* The read/write/execute entries CanRegionBeRWX does not exempt
NonExemptRwxEntries ==
  {i \in RwxEntries :
     ~CanRegionBeRWX(CurrentExemptions, TableEntries[i].LinearAddress, TableEntries[i].Length)}

SingleRwxEntry == TableEntries = <<MapEntry(EFI_PAGE_SIZE, EFI_PAGE_SIZE, {})>>

\* C6: when the walk runs, the test passes iff every read/write/execute entry
\* is exempted by CanRegionBeRWX; every entry that is not exempted is reported,
\* not only the first. With the single read/write/execute entry
\* {0x1000, 0x1000} and the special region {0x1000, 0x1000, 0} the test passes,
\* and with no exemption source populated it fails.
C6_NoReadWriteExecute ==
  RwxWalked =>
    /\ last.Passed <=> NonExemptRwxEntries = {}
    /\ Len(last.Offenders) = Cardinality(NonExemptRwxEntries)
    /\ {last.Offenders[k] : k \in 1..Len(last.Offenders)}
         = {<<TableEntries[i].LinearAddress, EntryEnd(TableEntries[i])>> :
              i \in NonExemptRwxEntries}
    /\ SingleRwxEntry =>
         /\ mSpecialRegions = Buffer(<<SpecialRegion(EFI_PAGE_SIZE, EFI_PAGE_SIZE, {})>>)
              => last.Passed
         /\ (~mSpecialRegions.alloc /\ ~mNonProtectedImageList.alloc) => ~last.Passed

\* Three read/write/execute entries: one exempt, the other two both reported
C6_Witness ==
  /\ RwxWalked
  /\ Cardinality(RwxEntries) = 3
  /\ Len(last.Offenders) = 2
  /\ ~last.Passed

\* The example: one read/write/execute entry, exempted by the special region
C6_WitnessExample ==
  /\ RwxWalked
  /\ SingleRwxEntry
  /\ mSpecialRegions = Buffer(<<SpecialRegion(EFI_PAGE_SIZE, EFI_PAGE_SIZE, {})>>)
  /\ last.Passed

\* The example with the exemption removed
C6_WitnessExampleRemoved ==
  /\ RwxWalked
  /\ SingleRwxEntry
  /\ ~mSpecialRegions.alloc /\ ~mNonProtectedImageList.alloc
  /\ last.Offenders = <<<<EFI_PAGE_SIZE, 2 * EFI_PAGE_SIZE>>>>
  /\ ~last.Passed

-----------------------------------------------------------------------------
(* Properties of the run of the test suite (SpecRun) *)

TestRan == last.op \in {TestCases[k] : k \in 1..Len(TestCases)}

ProducerCalls(flat, special, images, gcd, efi) == [CreateFlatPageTable |-> flat, GetSpecialRegions |-> special, GetImageList |-> images, GetMemorySpaceMap |-> gcd, GetMemoryMap |-> efi]

ExpectedCalls(name) ==
  CASE name = "NoReadWriteExecute" -> ProducerCalls(2, 1, 1, 1, 0)
    [] name \in {"UnallocatedMemoryIsRP"} -> ProducerCalls(2, 0, 0, 0, 2)
    [] name \in {"MmioIsXp", "MemoryOutsideEfiMemoryMapIsInaccessible"} ->
         ProducerCalls(2, 0, 0, 1, 2)
    [] name = "IsMemoryAttributeProtocolPresent" -> ProducerCalls(0, 0, 0, 0, 0)
    [] OTHER -> ProducerCalls(2, 0, 0, 0, 0)

C12_NullMeansZero ==
  /\ ~mMap.Entries.alloc => (mMap.EntryCount = 0 /\ mMap.EntryPagesAllocated = 0)
  /\ ~mSpecialRegions.alloc => mSpecialRegionCount = 0
  /\ ~mMemorySpaceMap.alloc => mMemorySpaceMapCount = 0
  /\ ~mEfiMemoryMap.alloc => (mEfiMemoryMapSize = 0 /\ mEfiMemoryMapDescriptorSize = 0)

\* The part of C12 about the release functions themselves: after the cleanup
\* of a test and after the exit path, what they released is NULL and zero
C12_ReleaseResets ==
  /\ last.op = "GeneralTestCleanup" =>
       /\ mSpecialRegions = NULL /\ mSpecialRegionCount = 0
       /\ mMemorySpaceMap = NULL /\ mMemorySpaceMapCount = 0
  /\ \A M \in {CurrentEfiMap} : FreeEfiMemoryMap(M) = EfiMap(NULL, 0, 0)
  /\ FreePageTableMap(mMap) = EmptyMap

-----------------------------------------------------------------------------
(* Properties of ImageCodeSectionsRoDataSectionsXp (SpecImage) *)

ImageWalked == last.op = "ImageCodeSectionsRoDataSectionsXp" /\ last.Walked

\* The images whose sections the test reads, and their sections
ReadImages ==
  {i \in 1..Len(platform.LoadedImages.data) :
     /\ platform.LoadedImages.data[i].Opened
     /\ platform.LoadedImages.data[i].SectionAlignment
          % (IF platform.LoadedImages.data[i].ImageCodeType = EfiRuntimeServicesCode
               THEN RUNTIME_PAGE_ALLOCATION_GRANULARITY ELSE EFI_PAGE_SIZE) = 0}

SectionsOf(i) == 1..Len(platform.LoadedImages.data[i].Sections)

CharacteristicsOf(i, j) == platform.LoadedImages.data[i].Sections[j].Characteristics

DataBits == {EFI_IMAGE_SCN_CNT_INITIALIZED_DATA, EFI_IMAGE_SCN_CNT_UNINITIALIZED_DATA}

CodeAndData(i, j) ==
  EFI_IMAGE_SCN_CNT_CODE \in CharacteristicsOf(i, j) /\ CharacteristicsOf(i, j) \cap DataBits /= {}

CodeOnly(i, j) ==
  EFI_IMAGE_SCN_CNT_CODE \in CharacteristicsOf(i, j) /\ CharacteristicsOf(i, j) \cap DataBits = {}

ExecutableNotWritable(i, j) ==
  /\ EFI_IMAGE_SCN_MEM_EXECUTE \in CharacteristicsOf(i, j)
  /\ EFI_IMAGE_SCN_MEM_WRITE \notin CharacteristicsOf(i, j)

\* The findings the test recorded for section j of image i
FindingsFor(i, j) ==
  {last.Findings[k] : k \in {n \in 1..Len(last.Findings) :
                               last.Findings[n].Image = i /\ last.Findings[n].Section = j}}

\* Section j of image i was validated once, over its whole range, for attr,
\* all bits required, unmapped not allowed
ValidatedFor(i, j, attr) ==
  LET img == platform.LoadedImages.data[i]
      sec == img.Sections[j]
      pages == (sec.SizeOfRawData + img.SectionAlignment - 1) \div img.SectionAlignment
  IN /\ Cardinality(FindingsFor(i, j)) = 1
     /\ \A f \in FindingsFor(i, j) :
          /\ f.Queried
          /\ f.V.Address = img.ImageBase + sec.VirtualAddress
          /\ f.V.Length = pages * img.SectionAlignment
          /\ f.V.RequiredAttributes = {attr}
          /\ ~f.V.MatchAnyAttribute
          /\ ~f.V.AllowUnmappedRegions

\* Some page of section j of image i is unmapped or mapped without attr
SectionLacks(i, j, attr) ==
  LET img == platform.LoadedImages.data[i]
      sec == img.Sections[j]
      first == img.ImageBase + sec.VirtualAddress
      pages == (sec.SizeOfRawData + EFI_PAGE_SIZE - 1) \div EFI_PAGE_SIZE
  IN \E k \in 0..(pages - 1) :
       \A e \in Covering(first + k * EFI_PAGE_SIZE) : attr \notin TableEntries[e].Attr

C14_CodeAndDataFails ==
  ImageWalked =>
    \A i \in ReadImages : \A j \in SectionsOf(i) :
      CodeAndData(i, j) =>
        /\ ~last.Passed
        /\ \A f \in FindingsFor(i, j) : ~f.Queried /\ f.Kind = "code and data"
        /\ \A k \in 1..Len(last.Validations) :
             last.Validations[k].Address
               /= platform.LoadedImages.data[i].ImageBase
                    + platform.LoadedImages.data[i].Sections[j].VirtualAddress

\* A section of code and uninitialized data on a page mapped RO, the other
\* section in order: the test fails without a query for the first
C14_Witness ==
  /\ ImageWalked
  /\ 1 \in ReadImages
  /\ CharacteristicsOf(1, 1) = {EFI_IMAGE_SCN_CNT_CODE, EFI_IMAGE_SCN_CNT_UNINITIALIZED_DATA}
  /\ ~SectionLacks(1, 1, EFI_MEMORY_RO)
  /\ ~CodeAndData(1, 2)
  /\ Len(last.Validations) = 1 /\ last.Validations[1].Result
  /\ ~last.Passed

-----------------------------------------------------------------------------
(* Properties of BspStackIsXpAndHasGuardPage (SpecStack) *)

StackWalked == last.op = "BspStackIsXpAndHasGuardPage" /\ last.Walked

StackHobs == SelectSeq(platform.Hobs, LAMBDA h : h.Stack)

\* The pages of the first stack HOB
StackFirstPage == StackHobs[1].MemoryBaseAddress \div EFI_PAGE_SIZE

StackPages == (StackHobs[1].MemoryLength + EFI_PAGE_SIZE - 1) \div EFI_PAGE_SIZE

PageMapped(p) == Covering(p * EFI_PAGE_SIZE) /= {}

PageHas(p, attr) == \A e \in Covering(p * EFI_PAGE_SIZE) : attr \in TableEntries[e].Attr

\* The guard page is restricted or unmapped
GuardPageOk == PageHas(StackFirstPage, EFI_MEMORY_RP)

\* Every page of the remainder is mapped non-executable
StackRemainderOk ==
  \A p \in (StackFirstPage + 1)..(StackFirstPage + StackPages - 1) :
    PageMapped(p) /\ PageHas(p, EFI_MEMORY_XP)

\* The two validations are the ones of the claim
StackRequests ==
  /\ Len(last.Validations) = 2
  /\ last.Validations[1].Address = StackFirstPage * EFI_PAGE_SIZE
  /\ last.Validations[1].Length = EFI_PAGE_SIZE
  /\ last.Validations[1].RequiredAttributes = {EFI_MEMORY_RP}
  /\ last.Validations[1].MatchAnyAttribute /\ last.Validations[1].AllowUnmappedRegions
  /\ last.Validations[2].Address = (StackFirstPage + 1) * EFI_PAGE_SIZE
  /\ last.Validations[2].Length = (StackPages - 1) * EFI_PAGE_SIZE
  /\ last.Validations[2].RequiredAttributes = {EFI_MEMORY_XP}
  /\ last.Validations[2].MatchAnyAttribute /\ ~last.Validations[2].AllowUnmappedRegions

\* C15: the first page of the boot stack is validated against RP, match-any,
\* unmapped allowed, the remainder against XP, match-any, unmapped not allowed,
\* and the test passes exactly when the guard page is restricted or unmapped
\* and every byte of the remainder is mapped non-executable.
C15_StackGuarded ==
  (StackWalked /\ StackHobs /= <<>> /\ StackPages > 1) =>
    /\ StackRequests
    /\ last.Passed <=> (GuardPageOk /\ StackRemainderOk)

\* With the guard page mapped the verdict is the one of the claim
C15_StackGuardMapped ==
  (StackWalked /\ StackHobs /= <<>> /\ StackPages > 1 /\ PageMapped(StackFirstPage)) =>
    /\ StackRequests
    /\ last.Passed <=> (GuardPageOk /\ StackRemainderOk)

\* A mapped, restricted guard page under a non-executable stack: the test passes
C15_MappedWitness ==
  /\ StackWalked /\ StackHobs /= <<>> /\ StackPages = 3
  /\ PageMapped(StackFirstPage) /\ GuardPageOk /\ StackRemainderOk
  /\ last.Passed

-----------------------------------------------------------------------------
(* Properties of MemoryOutsideEfiMemoryMapIsInaccessible (SpecOutside) *)

OutsideWalked == last.op = "MemoryOutsideEfiMemoryMapIsInaccessible" /\ last.Walked

GcdList == platform.MemorySpaceMap.data

\* The lowest base and the end of the highest descriptor of the address space
AddressSpaceStart ==
  CHOOSE b \in {GcdList[i].BaseAddress : i \in 1..Len(GcdList)} :
    \A i \in 1..Len(GcdList) : b <= GcdList[i].BaseAddress

AddressSpaceEnd ==
  CHOOSE e \in {GcdList[i].BaseAddress + GcdList[i].Length : i \in 1..Len(GcdList)} :
    \A i \in 1..Len(GcdList) : GcdList[i].BaseAddress + GcdList[i].Length <= e

InMemoryMap(a) ==
  \E i \in 1..Len(platform.EfiMemoryMap.data) :
    LET d == platform.EfiMemoryMap.data[i]
    IN d.PhysicalStart <= a /\ a < d.PhysicalStart + d.NumberOfPages * EFI_PAGE_SIZE

\* The pages of the address space that no memory map entry holds
GapPages ==
  {p \in 0..(AddressSpaceEnd \div EFI_PAGE_SIZE) :
     /\ AddressSpaceStart <= p * EFI_PAGE_SIZE /\ p * EFI_PAGE_SIZE < AddressSpaceEnd
     /\ ~InMemoryMap(p * EFI_PAGE_SIZE)}

\* The pages the validations of the test ranged over
ValidatedPages ==
  {p \in 0..(AddressSpaceEnd \div EFI_PAGE_SIZE) :
     \E k \in 1..Len(last.Validations) :
       /\ last.Validations[k].Address <= p * EFI_PAGE_SIZE
       /\ p * EFI_PAGE_SIZE < last.Validations[k].Address + last.Validations[k].Length}

OutsideRequests ==
  /\ ValidatedPages = GapPages
  /\ \A k \in 1..Len(last.Validations) :
       /\ last.Validations[k].RequiredAttributes = {EFI_MEMORY_RP}
       /\ last.Validations[k].MatchAnyAttribute
       /\ last.Validations[k].AllowUnmappedRegions

\* C16: every address of the address space that no memory map entry holds is
\* validated against RP, match-any, unmapped allowed, no address inside an
\* entry is validated, and the test passes exactly when every such gap is
\* restricted or unmapped.
C16_GapsInaccessible ==
  OutsideWalked =>
    /\ OutsideRequests
    /\ last.Passed <=> (\A p \in GapPages : PageHas(p, EFI_MEMORY_RP))

\* With every page of the gaps mapped the verdict is the one of the claim
C16_GapsMapped ==
  (OutsideWalked /\ \A p \in GapPages : PageMapped(p)) =>
    /\ OutsideRequests
    /\ last.Passed <=> (\A p \in GapPages : PageHas(p, EFI_MEMORY_RP))

\* Two mapped, restricted gaps around the one memory map entry: the test passes
C16_MappedWitness ==
  /\ OutsideWalked
  /\ Cardinality(GapPages) = 2 /\ Len(last.Validations) = 2
  /\ \A p \in GapPages : PageMapped(p) /\ PageHas(p, EFI_MEMORY_RP)
  /\ last.Passed

-----------------------------------------------------------------------------
(* Properties of NoReadWriteExecute without an exemption producer (SpecNoRwx) *)

ProducerMissing == ~platform.SpecialRegions.avail \/ ~platform.NonProtectedImages.avail

\* Entry i of the table lies within an entry of a source that is populated; a
\* source that is not populated has no entries
ExemptByPopulatedSource(i) ==
  \E e \in ExemptionEntries :
    Subsumes(e.base, e.len, TableEntries[i].LinearAddress, TableEntries[i].Length)

OffenderStarts == {last.Offenders[k][1] : k \in 1..Len(last.Offenders)}

\* C17: when the special region producer or the non-protected image producer is
\* unavailable, NoReadWriteExecute still reaches its verdict, and the verdict
\* is the one for that source being empty: the test passes exactly when every
\* read/write/execute entry is exempted by an entry of the sources that are
\* populated.
C17_MissingSourceIsEmpty ==
  (RwxWalked /\ ProducerMissing) =>
    /\ ~platform.SpecialRegions.avail => ~mSpecialRegions.alloc
    /\ ~platform.NonProtectedImages.avail => ~mNonProtectedImageList.alloc
    /\ last.Passed <=> (\A i \in RwxEntries : ExemptByPopulatedSource(i))

\* What holds of a missing producer: its global stays NULL, the walk is made,
\* and an entry that is not reported is exempted by a populated source
C17_NothingExemptedThroughMissing ==
  (RwxWalked /\ ProducerMissing) =>
    /\ ~platform.SpecialRegions.avail => ~mSpecialRegions.alloc
    /\ ~platform.NonProtectedImages.avail => ~mNonProtectedImageList.alloc
    /\ last.Passed <=> last.Offenders = <<>>
    /\ \A i \in RwxEntries :
         TableEntries[i].LinearAddress \notin OffenderStarts => ExemptByPopulatedSource(i)

\* Both producers missing, the walk made, and an entry exempted by the image
\* list when only the special region producer is missing
C17_WalkedWithoutProducers ==
  /\ RwxWalked
  /\ ~platform.SpecialRegions.avail /\ ~platform.NonProtectedImages.avail
  /\ RwxEntries /= {}

C17_ExemptedByRemainingSource ==
  /\ RwxWalked
  /\ ~platform.SpecialRegions.avail /\ platform.NonProtectedImages.avail
  /\ RwxEntries /= {}
  /\ last.Passed

-----------------------------------------------------------------------------
(* Properties of the loop of ValidateRegionAttributes (SpecValidate) *)

Segments == last.Result.Segments

\* The iterations in which the query reported a covered length of 0 with one
\* of the three statuses the loop goes on from
ZeroIterations ==
  {i \in 1..Len(Segments) :
     /\ Segments[i].CheckedLength = 0
     /\ Segments[i].Status \in {"EFI_SUCCESS", "EFI_NOT_FOUND", "EFI_NO_MAPPING"}}

\* A sub-range that fails on its attributes or on being unmapped
SegmentRejected(seg) ==
  \/ seg.Mismatch
  \/ (seg.Status = "EFI_NO_MAPPING" /\ ~args.AllowUnmappedRegions)
  \/ seg.Status \notin {"EFI_SUCCESS", "EFI_NOT_FOUND", "EFI_NO_MAPPING"}

NoSegmentRejected == \A i \in 1..Len(Segments) : ~SegmentRejected(Segments[i])

\* C18: the loop gives up for lack of progress only when the query reports a
\* covered length of 0 in two consecutive iterations; one iteration with a
\* covered length of 0 does not by itself make the verdict FALSE.
C18_AbortsAfterTwoZeroes ==
  (Validated /\ args.Length > 0) =>
    /\ last.Result.Exit = "no progress" =>
         \E i \in ZeroIterations : i + 1 \in ZeroIterations
    /\ (Cardinality(ZeroIterations) = 1 /\ NoSegmentRejected) => last.Result.AttributesMatch

\* What the loop does: the first iteration with a covered length of 0 is the
\* last one and the verdict is FALSE
C18_AbortsAtFirstZero ==
  (Validated /\ ZeroIterations /= {}) =>
    /\ ZeroIterations = {Len(Segments)}
    /\ last.Result.Exit = "no progress"
    /\ ~last.Result.AttributesMatch

\* A mapped page that passes, then a gap that is allowed: one iteration with a
\* covered length of 0, and the verdict is FALSE
C18_SingleZeroWitness ==
  /\ Validated /\ args.Length > 0 /\ args.AllowUnmappedRegions
  /\ Len(Segments) = 2
  /\ ZeroIterations = {2}
  /\ NoSegmentRejected
  /\ ~last.Result.AttributesMatch

\* C19: the address is advanced by a checked 64-bit addition; when
\* Address + CheckedLength does not fit, the loop ends at once without marking
\* a failure, so the verdict is that of the sub-ranges examined so far.
C19_OverflowEndsLoop ==
  Validated =>
    /\ \A i \in 1..Len(Segments) :
         Segments[i].Address + Segments[i].CheckedLength > MaxUint
           => /\ i = Len(Segments)
              /\ last.Result.Exit \in {"overflow", "no progress", "unexpected status"}
    /\ last.Result.Exit = "overflow" =>
         /\ Segments[Len(Segments)].Address + Segments[Len(Segments)].CheckedLength > MaxUint
         /\ last.Result.AttributesMatch <=> NoSegmentRejected

\* Two sub-ranges up to the top of the address space, both passing: the
\* addition overflows after the second and the verdict is TRUE
C19_Witness ==
  /\ Validated
  /\ last.Result.Exit = "overflow"
  /\ Len(Segments) = 2
  /\ NoSegmentRejected
  /\ last.Result.AttributesMatch

\* The overflow after a sub-range that failed leaves the verdict FALSE
C19_WitnessFailed ==
  /\ Validated
  /\ last.Result.Exit = "overflow"
  /\ Segments[1].Mismatch
  /\ ~last.Result.AttributesMatch

\* The entries of the table that share an address with the requested range
EntriesInRequest ==
  {i \in 1..Len(TableEntries) :
     /\ TableEntries[i].LinearAddress < args.Address + args.Length
     /\ args.Address < EntryEnd(TableEntries[i])}

\* C20: the loop ends for every table, malformed ones included, and every
\* request: an iteration that does not leave the loop strictly reduces the
\* remaining length, and there are no more iterations than there are segments
\* of the table in the requested range.
C20_LoopTerminates ==
  Validated =>
    /\ last.Result.Exit \in {"done", "overflow", "no progress", "unexpected status"}
    /\ \A i \in 1..(Len(Segments) - 1) :
         /\ Segments[i].CheckedLength > 0
         /\ Segments[i + 1].Length = Segments[i].Length - Segments[i].CheckedLength
         /\ Segments[i + 1].Length < Segments[i].Length
         /\ Segments[i + 1].Length > 0
    /\ Len(Segments) >= 1
    /\ Len(Segments) <= Cardinality(EntriesInRequest) + 1
    /\ WellFormed(TableEntries) /\ last.Result.Exit = "done"
         => Len(Segments) <= Cardinality(EntriesInRequest)

\* Three sub-ranges, each shorter than the one before
C20_Witness ==
  /\ Validated
  /\ Len(Segments) = 3
  /\ Segments[1].Length > Segments[2].Length /\ Segments[2].Length > Segments[3].Length
  /\ last.Result.Exit = "done"

\* A malformed table: the loop ends in its first iteration
C20_WitnessMalformed ==
  /\ Validated
  /\ ~WellFormed(TableEntries)
  /\ Len(Segments) = 1
  /\ last.Result.Exit = "unexpected status"

-----------------------------------------------------------------------------
(* Properties of UnallocatedMemoryIsRP under an unexpected status (SpecUnallocated) *)

UnallocatedWalked == last.op = "UnallocatedMemoryIsRP" /\ last.Walked

\* The descriptors of free memory the firmware reports
FreeDescriptors ==
  {i \in 1..Len(platform.EfiMemoryMap.data) :
     platform.EfiMemoryMap.data[i].Type = EfiConventionalMemory}

UnexpectedAt(i) == last.Validations[i].Exit = "unexpected status"

-----------------------------------------------------------------------------
(* Properties of the alignment check of ImageCodeSectionsRoDataSectionsXp (SpecImage) *)

\* The images the test could open
OpenedImages ==
  {i \in 1..Len(platform.LoadedImages.data) : platform.LoadedImages.data[i].Opened}

\* The section alignment of image i is not a multiple of the granularity of
\* its memory type
Misaligned(i) == i \in OpenedImages \ ReadImages

\* The attribute queries the test owes: one for each section of a read image
\* that is not marked as both code and data
OwedQueries == {<<i, j>> \in ReadImages \X {1, 2} : j \in SectionsOf(i) /\ ~CodeAndData(i, j)}

FindingsOfImage(i) ==
  {n \in 1..Len(last.Findings) : last.Findings[n].Image = i}

\* C22: an image whose section alignment is wrong makes the test fail and is
\* left with that one finding, no attribute query being made for any of its
\* sections; the images before and after it are scanned section by section.
C22_MisalignedFailsUnqueried ==
  ImageWalked =>
    /\ (\E i \in OpenedImages : Misaligned(i)) => ~last.Passed
    /\ \A i \in OpenedImages :
         Misaligned(i) =>
           /\ Cardinality(FindingsOfImage(i)) = 1
           /\ \A n \in FindingsOfImage(i) :
                last.Findings[n].Kind = "not aligned" /\ ~last.Findings[n].Queried
    /\ \A i \in ReadImages : \A j \in SectionsOf(i) : Cardinality(FindingsFor(i, j)) = 1
    /\ Len(last.Validations) = Cardinality(OwedQueries)

\* A misaligned image followed by an aligned one whose section was queried
C22_Witness ==
  /\ ImageWalked
  /\ Len(platform.LoadedImages.data) = 2
  /\ Misaligned(1)
  /\ 2 \in ReadImages
  /\ \E n \in FindingsOfImage(2) : last.Findings[n].Queried
  /\ Len(last.Validations) = 1
  /\ ~last.Passed

\* An image whose page alignment falls short of the runtime granularity
C22_WitnessRuntime ==
  /\ ImageWalked
  /\ \E i \in OpenedImages :
       /\ Misaligned(i)
       /\ platform.LoadedImages.data[i].ImageCodeType = EfiRuntimeServicesCode
       /\ platform.LoadedImages.data[i].SectionAlignment = EFI_PAGE_SIZE

-----------------------------------------------------------------------------
(* ValidatePageTableMapSize after a failed allocation (SpecMap) *)

\* C23: whenever ValidatePageTableMapSize returns EFI_SUCCESS, after whatever
\* calls came before it, mMap has a buffer and the pages allocated for it hold
\* at least the entry count the producer reported as required.
C23_SuccessHasBuffer ==
  (last.op = "ValidatePageTableMapSize" /\ Succeeded(last.Status))
  => /\ mMap.Entries.alloc
     /\ Capacity(mMap) >= last.Required

\* The same when no allocation has failed since the last release: the pages
\* mMap records are pages it has
C23_SuccessHasBufferUnlessStale ==
  (/\ last.op = "ValidatePageTableMapSize"
   /\ Succeeded(last.Status)
   /\ (last.Before.Entries.alloc \/ last.Before.EntryPagesAllocated = 0))
  => /\ mMap.Entries.alloc
     /\ Capacity(mMap) >= last.Required

\* Success returned on what a failed allocation left behind
C23_StaleSuccess ==
  /\ last.op = "ValidatePageTableMapSize"
  /\ Succeeded(last.Status)
  /\ ~last.Before.Entries.alloc
  /\ last.Before.EntryPagesAllocated > 0
  /\ ~mMap.Entries.alloc

-----------------------------------------------------------------------------
(* CHECK_SUBSUMPTION on ends that do not fit the word (SpecRwx) *)

\* base + len is not representable: the end CanRegionBeRWX computes has wrapped
EndWraps(base, len) == base + len > MaxUint

\* The query, or an entry that counts as an exemption, has an end that wrapped
WrapInvolved ==
  \/ EndWraps(last.Address, last.Length)
  \/ \E e \in ExemptionEntries : EndWraps(e.base, e.len)

\* C24: when the end of the query or of an exemption entry has wrapped around,
\* CanRegionBeRWX answers TRUE only if some exemption entry contains the query
\* range, the ends taken over the unbounded integers.
C24_SoundUnderWrap ==
  (last.op = "CanRegionBeRWX" /\ WrapInvolved /\ last.Result)
  => QuerySubsumedBy(ExemptionEntries)

\* The same with no wrapped end in play: a TRUE answer is a real containment
C24_SoundWithoutWrap ==
  (last.op = "CanRegionBeRWX" /\ ~WrapInvolved /\ last.Result)
  => QuerySubsumedBy(ExemptionEntries)

\* A query that ends at the top of the address space exempted by an entry at
\* the bottom of it
C24_WrappedQueryExempted ==
  /\ last.op = "CanRegionBeRWX"
  /\ EndWraps(last.Address, last.Length)
  /\ last.Result
  /\ \A e \in ExemptionEntries : e.base = 0 /\ ~EndWraps(e.base, e.len)
  /\ ~QuerySubsumedBy(ExemptionEntries)

=============================================================================
